---- MODULE Spec2Model ----
(***************************************************************************)
(* Chat-with-SQL: the retrieval-augmented, safety-validated query pipeline *)
(* (sql_generator.py, sql_validator.py, schema_indexer.py, db_executor.py, *)
(* answer_generator.py, app/core/pipeline.py).                             *)
(*                                                                         *)
(* Text is a sequence of lexemes.  A lexeme is a whole word (a maximal run *)
(* of [A-Za-z0-9_] characters taken from a fixed vocabulary), one          *)
(* whitespace character, or one punctuation mark.  Two word lexemes next   *)
(* to each other stand for one longer word (what is left when the text     *)
(* between them is deleted); such a fused word is no keyword and no known  *)
(* table.                                                                  *)
(***************************************************************************)
EXTENDS Integers, Sequences, FiniteSets, TLC

(***************************************************************************)
(* Lexemes and character classes                                           *)
(***************************************************************************)
WS == {" ", "\n"}

Punct == {";", ",", ".", "*", "(", ")", ":", "=", "?", "\"", "'", "-", "/*", "*/", "<fence>"}

\* "<fence>" is the markdown code-fence marker (three backquotes)
Fence == "<fence>"

IsWord(x) == x \notin WS /\ x \notin Punct

\* str.upper() on one word of the vocabulary
Upper(w) ==
  CASE w = "select" -> "SELECT"
    [] w = "Select" -> "SELECT"
    [] w = "from" -> "FROM"
    [] w = "join" -> "JOIN"
    [] w = "drop" -> "DROP"
    [] w = "Delete" -> "DELETE"
    [] w = "update" -> "UPDATE"
    [] w = "union" -> "UNION"
    [] w = "sql" -> "SQL"
    [] w = "customers" -> "CUSTOMERS"
    [] w = "Customers" -> "CUSTOMERS"
    [] w = "orders" -> "ORDERS"
    [] w = "payments" -> "PAYMENTS"
    [] w = "Payments" -> "PAYMENTS"
    [] w = "public" -> "PUBLIC"
    [] w = "c" -> "C"
    [] w = "o" -> "O"
    [] w = "name" -> "NAME"
    [] w = "model" -> "MODEL"
    [] w = "top" -> "TOP"
    [] w = "Recent" -> "RECENT"
    [] w = "Orders" -> "ORDERS"
    [] w = "revenue" -> "REVENUE"
    [] w = "total" -> "TOTAL"
    [] OTHER -> w

\* str.lower() on one (upper-cased) word of the vocabulary
Lower(w) ==
  CASE w = "CUSTOMERS" -> "customers"
    [] w = "ORDERS" -> "orders"
    [] w = "PAYMENTS" -> "payments"
    [] w = "PUBLIC" -> "public"
    [] w = "C" -> "c"
    [] w = "O" -> "o"
    [] w = "NAME" -> "name"
    [] w = "MODEL" -> "model"
    [] w = "TABLE" -> "table"
    [] w = "SELECT" -> "select"
    [] OTHER -> w

(***************************************************************************)
(* Sequence helpers                                                        *)
(***************************************************************************)
Range(s) == {s[i] : i \in 1..Len(s)}

\* s[a..b] as s[a-1:b] in Python; empty when a > b
Slice(s, a, b) == IF a > b THEN <<>> ELSE SubSeq(s, a, b)

\* least j >= i with s[j] = x, 0 when there is none (str.find)
Find(s, i, x) ==
  LET hits == {j \in i..Len(s) : s[j] = x}
  IN IF hits = {} THEN 0 ELSE CHOOSE j \in hits : \A k \in hits : j <= k

\* greatest j with s[j] = x, 0 when there is none (str.rfind)
RFind(s, x) ==
  LET hits == {j \in 1..Len(s) : s[j] = x}
  IN IF hits = {} THEN 0 ELSE CHOOSE j \in hits : \A k \in hits : j >= k

\* str.strip(): drop leading and trailing whitespace
Strip(s) ==
  LET keep == {j \in 1..Len(s) : s[j] \notin WS}
  IN IF keep = {} THEN <<>>
     ELSE LET a == CHOOSE j \in keep : \A k \in keep : j <= k
              b == CHOOSE j \in keep : \A k \in keep : j >= k
          IN SubSeq(s, a, b)

\* " ".join(s.split()): strip, and every whitespace run becomes one space
RECURSIVE CollapseFrom(_, _)
CollapseFrom(s, i) ==
  IF i > Len(s) THEN <<>>
  ELSE IF s[i] \in WS
       THEN IF i > 1 /\ s[i-1] \in WS THEN CollapseFrom(s, i + 1)
            ELSE <<" ">> \o CollapseFrom(s, i + 1)
       ELSE <<s[i]>> \o CollapseFrom(s, i + 1)

NormalizeWhitespace(s) == CollapseFrom(Strip(s), 1)

\* Removing text from a string joins what stood on its two sides.  Two word
\* lexemes that come to stand side by side are one word; when that word is
\* in the vocabulary it is written as its own lexeme.
Joined(a, b) == IF a = "SEL" /\ b = "ECT" THEN <<"SELECT">> ELSE <<a, b>>

\* the lexemes of s from position i on, with adjacent words joined (a joined
\* word joins nothing further)
RECURSIVE JoinWordsFrom(_, _)
JoinWordsFrom(s, i) ==
  IF i > Len(s) THEN <<>>
  ELSE IF i < Len(s) /\ IsWord(s[i]) /\ IsWord(s[i+1]) /\ Len(Joined(s[i], s[i+1])) = 1
       THEN Joined(s[i], s[i+1]) \o JoinWordsFrom(s, i + 2)
       ELSE <<s[i]>> \o JoinWordsFrom(s, i + 1)

JoinWords(s) == JoinWordsFrom(s, 1)

(***************************************************************************)
(* SQLGenerator.parse_sql_from_response (sql_generator.py)                 *)
(***************************************************************************)
\* re.sub(r"[fence](sql)?", "", response, flags=re.IGNORECASE)
RECURSIVE StripFencesFrom(_, _)
StripFencesFrom(s, i) ==
  IF i > Len(s) THEN <<>>
  ELSE IF s[i] = Fence
       THEN IF i < Len(s) /\ IsWord(s[i+1]) /\ Upper(s[i+1]) = "SQL"
            THEN StripFencesFrom(s, i + 2)
            ELSE StripFencesFrom(s, i + 1)
       ELSE <<s[i]>> \o StripFencesFrom(s, i + 1)

\* re.search(r"\bSELECT\b", clean, re.IGNORECASE): start of the first match, 0 when none
SelectMatch(s) ==
  LET hits == {j \in 1..Len(s) :
                 /\ IsWord(s[j]) /\ Upper(s[j]) = "SELECT"
                 /\ (j = 1 \/ ~IsWord(s[j-1]))
                 /\ (j = Len(s) \/ ~IsWord(s[j+1]))}
  IN IF hits = {} THEN 0 ELSE CHOOSE j \in hits : \A k \in hits : j <= k

parse_sql_from_response(response) ==
  LET clean0 == Strip(JoinWords(StripFencesFrom(response, 1)))
      m      == SelectMatch(clean0)
  IN IF m = 0 THEN clean0
     ELSE LET clean1 == Slice(clean0, m, Len(clean0))
              last_semicolon == RFind(clean1, ";")
              clean2 == IF last_semicolon # 0
                        THEN Slice(clean1, 1, last_semicolon)
                        ELSE clean1
          IN NormalizeWhitespace(clean2)

(***************************************************************************)
(* SQLValidator.sanitize_sql and check_for_injection (sql_validator.py)    *)
(***************************************************************************)
\* re.sub(r"--.*", "", sql): from two dashes to the end of the line
RECURSIVE RemoveLineComments(_, _)
RemoveLineComments(s, i) ==
  IF i > Len(s) THEN <<>>
  ELSE IF s[i] = "-" /\ i < Len(s) /\ s[i+1] = "-"
       THEN LET nl == Find(s, i, "\n")
            IN IF nl = 0 THEN <<>> ELSE RemoveLineComments(s, nl)
       ELSE <<s[i]>> \o RemoveLineComments(s, i + 1)

\* re.sub(r"/\*.*?\*/", "", sql, flags=re.DOTALL): shortest closed block comments
RECURSIVE RemoveBlockComments(_, _)
RemoveBlockComments(s, i) ==
  IF i > Len(s) THEN <<>>
  ELSE IF s[i] = "/*" /\ Find(s, i + 1, "*/") # 0
       THEN RemoveBlockComments(s, Find(s, i + 1, "*/") + 1)
       ELSE <<s[i]>> \o RemoveBlockComments(s, i + 1)

\* str.rstrip(";"): drop every trailing semicolon
RStripSemicolon(s) ==
  LET keep == {j \in 1..Len(s) : s[j] # ";"}
  IN IF keep = {} THEN <<>>
     ELSE SubSeq(s, 1, CHOOSE j \in keep : \A k \in keep : j >= k)

sanitize_sql(sql) ==
  LET a == RemoveLineComments(sql, 1)
      b == JoinWords(RemoveBlockComments(a, 1))
      c == Strip(RStripSemicolon(b))
  IN NormalizeWhitespace(c)

check_for_injection(sql) == ";" \in Range(sql)

(***************************************************************************)
(* sqlparse as SQLValidator uses it: the lexer's token classes, the split  *)
(* into statements, Statement.get_type() and the keyword token types       *)
(***************************************************************************)
\* Class of every lexeme: "code", or inside a "comment", a 'string' literal
\* or a quoted "symbol".  A quote or comment opener without its closer is code.
RECURSIVE LexFrom(_, _)
LexFrom(s, i) ==
  IF i > Len(s) THEN <<>>
  ELSE IF s[i] = "-" /\ i < Len(s) /\ s[i+1] = "-"
       THEN LET nl  == Find(s, i, "\n")
                end == IF nl = 0 THEN Len(s) ELSE nl
            IN [k \in 1..(end - i + 1) |-> "comment"] \o LexFrom(s, end + 1)
       ELSE IF s[i] = "/*" /\ Find(s, i + 1, "*/") # 0
       THEN LET end == Find(s, i + 1, "*/")
            IN [k \in 1..(end - i + 1) |-> "comment"] \o LexFrom(s, end + 1)
       ELSE IF s[i] = "'" /\ Find(s, i + 1, "'") # 0
       THEN LET end == Find(s, i + 1, "'")
            IN [k \in 1..(end - i + 1) |-> "string"] \o LexFrom(s, end + 1)
       ELSE IF s[i] = "\"" /\ Find(s, i + 1, "\"") # 0
       THEN LET end == Find(s, i + 1, "\"")
            IN [k \in 1..(end - i + 1) |-> "symbol"] \o LexFrom(s, end + 1)
       ELSE <<"code">> \o LexFrom(s, i + 1)

LexClass(s) == LexFrom(s, 1)

\* sqlparse.parse(sql)[0]: the text up to and including the first
\* statement terminator that is code; the whole text when there is none
FirstStatement(sql) ==
  LET cls  == LexClass(sql)
      ends == {j \in 1..Len(sql) : sql[j] = ";" /\ cls[j] = "code"}
  IN IF ends = {} THEN sql
     ELSE SubSeq(sql, 1, CHOOSE j \in ends : \A k \in ends : j <= k)

DMLWords == {"SELECT", "INSERT", "UPDATE", "DELETE", "REPLACE", "MERGE", "UPSERT"}

DDLWords == {"DROP", "CREATE", "ALTER"}

PlainKeywords == {"TRUNCATE", "EXEC", "EXECUTE", "GRANT", "REVOKE", "UNION",
                  "FROM", "JOIN", "TABLE", "WHERE", "ON", "AS", "INTO", "SET"}

\* token.ttype of the word at position i of statement s
TokenType(s, cls, i) ==
  LET nonws == {j \in (i+1)..Len(s) : s[j] \notin WS}
      nxt   == IF nonws = {} THEN 0 ELSE CHOOSE j \in nonws : \A k \in nonws : j <= k
  IN IF cls[i] # "code" THEN "Other"
     ELSE IF (i > 1 /\ IsWord(s[i-1])) \/ (i < Len(s) /\ IsWord(s[i+1])) THEN "Name"
     ELSE IF i < Len(s) /\ s[i+1] = "(" THEN "Name"
     ELSE IF nxt # 0 /\ s[nxt] = "." THEN "Name"
     ELSE IF Upper(s[i]) \in DMLWords THEN "DML"
     ELSE IF Upper(s[i]) \in DDLWords THEN "DDL"
     ELSE IF Upper(s[i]) \in PlainKeywords THEN "Keyword"
     ELSE "Name"

\* stmt.get_type(): the first token that is neither whitespace nor comment
get_type(stmt) ==
  LET cls   == LexClass(stmt)
      first == {j \in 1..Len(stmt) : stmt[j] \notin WS /\ cls[j] # "comment"}
  IN IF first = {} THEN "UNKNOWN"
     ELSE LET f == CHOOSE j \in first : \A k \in first : j <= k
          IN IF IsWord(stmt[f]) /\ TokenType(stmt, cls, f) \in {"DML", "DDL"}
             THEN Upper(stmt[f])
             ELSE "UNKNOWN"

(***************************************************************************)
(* SQLValidator.parse_and_validate and _extract_tables (sql_validator.py)  *)
(***************************************************************************)
forbidden_keywords == {"INSERT", "UPDATE", "DELETE", "DROP", "ALTER", "TRUNCATE",
                       "CREATE", "EXEC", "EXECUTE", "GRANT", "REVOKE", "REPLACE"}

\* A word that is not in the vocabulary (two word lexemes fused into one)
UnknownWord == "<unknown>"

\* end of the maximal run of word lexemes that starts at k
RECURSIVE WordRunEnd(_, _)
WordRunEnd(s, k) ==
  IF k < Len(s) /\ IsWord(s[k+1]) THEN WordRunEnd(s, k + 1) ELSE k

\* re.findall(kw + r"\s+([a-zA-Z0-9_]+)", str(stmt).upper()), each match lower-cased
RECURSIVE FindAllAfter(_, _, _)
FindAllAfter(s, kw, i) ==
  IF i > Len(s) THEN {}
  ELSE LET nonws == {j \in (i+1)..Len(s) : s[j] \notin WS}
           k     == IF nonws = {} THEN 0 ELSE CHOOSE j \in nonws : \A m \in nonws : j <= m
       IN IF /\ IsWord(s[i]) /\ Upper(s[i]) = kw
             /\ i < Len(s) /\ s[i+1] \in WS
             /\ k # 0 /\ IsWord(s[k])
          THEN LET e    == WordRunEnd(s, k)
                   name == IF e = k THEN Lower(Upper(s[k])) ELSE UnknownWord
               IN {name} \cup FindAllAfter(s, kw, e + 1)
          ELSE FindAllAfter(s, kw, i + 1)

_extract_tables(stmt) ==
  FindAllAfter(stmt, "FROM", 1) \cup FindAllAfter(stmt, "JOIN", 1)
    \cup FindAllAfter(stmt, "UPDATE", 1)

\* errors of step 3: one per forbidden keyword token, in token order
RECURSIVE KeywordErrors(_, _, _)
KeywordErrors(stmt, cls, i) ==
  IF i > Len(stmt) THEN <<>>
  ELSE IF /\ IsWord(stmt[i])
          /\ TokenType(stmt, cls, i) \in {"Keyword", "DML", "DDL"}
          /\ Upper(stmt[i]) \in forbidden_keywords
       THEN << <<"Forbidden keyword found: ", Upper(stmt[i])>> >>
              \o KeywordErrors(stmt, cls, i + 1)
       ELSE KeywordErrors(stmt, cls, i + 1)

\* warnings of step 3: one per UNION keyword token
RECURSIVE KeywordWarnings(_, _, _)
KeywordWarnings(stmt, cls, i) ==
  IF i > Len(stmt) THEN <<>>
  ELSE IF /\ IsWord(stmt[i])
          /\ TokenType(stmt, cls, i) \in {"Keyword", "DML", "DDL"}
          /\ Upper(stmt[i]) = "UNION"
       THEN << <<"UNION usage detected. Ensure column alignment.">> >>
              \o KeywordWarnings(stmt, cls, i + 1)
       ELSE KeywordWarnings(stmt, cls, i + 1)

\* The sequences that list every element of the set S once: the orders in
\* which Python may iterate the set found_tables
RECURSIVE Orderings(_)
Orderings(S) ==
  IF S = {} THEN {<<>>}
  ELSE UNION {{<<x>> \o t : t \in Orderings(S \ {x})} : x \in S}

ValidationResult(is_valid, errors, warnings, extracted_tables) ==
  [is_valid |-> is_valid, errors |-> errors, warnings |-> warnings,
   extracted_tables |-> extracted_tables, extracted_columns |-> <<>>]

parse_and_validate_warned(sql, allowed_tables, table_order) ==
  IF Len(sql) = 0
  THEN ValidationResult(FALSE, << <<"Empty SQL query">> >>, <<>>, <<>>)
  ELSE LET stmt == FirstStatement(sql)
           cls  == LexClass(stmt)
           typeErrors == IF get_type(stmt) # "SELECT"
                         THEN << <<"Query must start with SELECT. Found type: ", get_type(stmt)>> >>
                         ELSE <<>>
           NotAllowed(t) == t \notin allowed_tables
           denied == SelectSeq(table_order, NotAllowed)
           tableErrors == [k \in 1..Len(denied) |->
                             <<"Access to table '", denied[k],
                               "' is not allowed or not in retrieved context.">>]
           errors == typeErrors \o KeywordErrors(stmt, cls, 1) \o tableErrors
           warnings == KeywordWarnings(stmt, cls, 1)
       IN ValidationResult(Len(errors) = 0 /\ Len(warnings) = 0, errors, warnings, table_order)

\* table_order is the iteration order of found_tables, one of Orderings(_extract_tables(stmt))
parse_and_validate(sql, allowed_tables, table_order) ==
  IF Len(sql) = 0
  THEN ValidationResult(FALSE, << <<"Empty SQL query">> >>, <<>>, <<>>)
  ELSE LET stmt == FirstStatement(sql)
           cls  == LexClass(stmt)
           typeErrors == IF get_type(stmt) # "SELECT"
                         THEN << <<"Query must start with SELECT. Found type: ", get_type(stmt)>> >>
                         ELSE <<>>
           NotAllowed(t) == t \notin allowed_tables
           denied == SelectSeq(table_order, NotAllowed)
           tableErrors == [k \in 1..Len(denied) |->
                             <<"Access to table '", denied[k],
                               "' is not allowed or not in retrieved context.">>]
           errors == typeErrors \o KeywordErrors(stmt, cls, 1) \o tableErrors
       IN ValidationResult(Len(errors) = 0, errors, KeywordWarnings(stmt, cls, 1), table_order)

\* the table orders parse_and_validate may use for this text
TableOrders(sql) ==
  IF Len(sql) = 0 THEN {<<>>} ELSE Orderings(_extract_tables(FirstStatement(sql)))

(***************************************************************************)
(* Optional values: None is the empty sequence, Some(v) a one-element one. *)
(* An answer is the sequence of its pieces, each piece a tuple of strings. *)
(***************************************************************************)
None == <<>>

Some(v) == <<v>>

(***************************************************************************)
(* SQLGenerator.handle_ambiguity (sql_generator.py)                        *)
(***************************************************************************)
ambiguous_patterns == {<<"TOP", " ", "CUSTOMERS">>, <<"BEST", " ", "PRODUCTS">>,
                       <<"RECENT", " ", "ORDERS">>, <<"PERFORMANCE">>}

\* re.search(pattern + r"\??$", question, re.IGNORECASE)
MatchesAtEnd(question, pattern) ==
  LET q0 == IF Len(question) > 0 /\ question[Len(question)] = "\n"
            THEN SubSeq(question, 1, Len(question) - 1) ELSE question
      EndsWith(q) == /\ Len(q) >= Len(pattern)
                     /\ \A k \in 1..Len(pattern) :
                          Upper(q[Len(q) - Len(pattern) + k]) = pattern[k]
      NoMark(q) == IF Len(q) > 0 /\ q[Len(q)] = "?"
                   THEN SubSeq(q, 1, Len(q) - 1) ELSE q
  IN EndsWith(NoMark(question)) \/ EndsWith(NoMark(q0))

handle_ambiguity(question) ==
  IF \E pattern \in ambiguous_patterns : MatchesAtEnd(question, pattern)
  THEN Some(<< <<"Your question '">>, question,
               <<"' is a bit ambiguous. Could you specify the metric?">> >>)
  ELSE None

(***************************************************************************)
(* SchemaIndexer (schema_indexer.py).  A schema document is the record of  *)
(* what its text carries: the table name after "Table: " and the targets   *)
(* of the FK markers of its column list, in column order.                  *)
(***************************************************************************)
Document(table_name, fks) == [table_name |-> table_name, fks |-> fks]

\* the collection after run_indexing(): one document per table, keyed by name
ExampleCollection ==
  [t \in {"customers", "orders", "products", "order_items", "payments"} |->
     CASE t = "customers"   -> Document(t, <<>>)
       [] t = "orders"      -> Document(t, <<"customers">>)
       [] t = "products"    -> Document(t, <<>>)
       [] t = "order_items" -> Document(t, <<"orders", "products">>)
       [] t = "payments"    -> Document(t, <<"orders">>)]

\* top_k of the call in process_question
TopK == 5

\* most documents one similarity query returns in the model
MaxRetrieved == 1

Min(a, b) == IF a <= b THEN a ELSE b

\* collection.query(query_texts=[question], n_results=top_k): some ranking of
\* at most top_k documents of the collection
RetrievalResults(coll, top_k) ==
  LET docs == {coll[t] : t \in DOMAIN coll}
  IN UNION {Orderings(D) : D \in {X \in SUBSET docs :
                                    Cardinality(X) <= Min(top_k, MaxRetrieved)}}

\* schema.split("|")[0].replace("Table: ", "").strip()
TableNameOf(doc) == doc.table_name

TableNames(schemas) == {TableNameOf(schemas[k]) : k \in 1..Len(schemas)}

\* tables_to_add of expand_with_related_tables
tables_to_add(retrieved_tables) ==
  (UNION {Range(retrieved_tables[k].fks) : k \in 1..Len(retrieved_tables)})
    \ TableNames(retrieved_tables)

ExtrasOrdersFollowed(coll, retrieved_tables) ==
  LET first == tables_to_add(retrieved_tables) \cap DOMAIN coll
      second == UNION {Range(coll[t].fks) : t \in first}
  IN Orderings({coll[t] : t \in ((first \cup second) \ TableNames(retrieved_tables))
                                  \cap DOMAIN coll})

\* the orders in which collection.get(ids=list(tables_to_add)) may list what it finds
ExtrasOrders(coll, retrieved_tables) ==
  Orderings({coll[t] : t \in tables_to_add(retrieved_tables) \cap DOMAIN coll})

AppendMissingFirstOnly(retrieved_tables, extras) ==
  IF extras = <<>> \/ Head(extras) \in Range(retrieved_tables) THEN retrieved_tables
  ELSE Append(retrieved_tables, Head(extras))

RECURSIVE AppendMissingInFront(_, _)
AppendMissingInFront(retrieved_tables, extras) ==
  IF extras = <<>> THEN retrieved_tables
  ELSE IF Head(extras) \in Range(retrieved_tables)
       THEN AppendMissingInFront(retrieved_tables, Tail(extras))
       ELSE AppendMissingInFront(<<Head(extras)>> \o retrieved_tables, Tail(extras))

RECURSIVE AppendMissing(_, _)
AppendMissing(retrieved_tables, extras) ==
  IF extras = <<>> THEN retrieved_tables
  ELSE IF Head(extras) \in Range(retrieved_tables)
       THEN AppendMissing(retrieved_tables, Tail(extras))
       ELSE AppendMissing(Append(retrieved_tables, Head(extras)), Tail(extras))

\* extras is one of ExtrasOrders(coll, retrieved_tables)
expand_with_related_tables(retrieved_tables, extras) ==
  IF tables_to_add(retrieved_tables) = {} THEN retrieved_tables
  ELSE AppendMissing(retrieved_tables, extras)

(***************************************************************************)
(* DatabaseExecutor (app/core/db_executor.py)                              *)
(***************************************************************************)
MAX_ROWS == 200

QueryResult(success, columns, rows, truncated, error_message) ==
  [success |-> success, columns |-> columns, rows |-> rows,
   row_count |-> Len(rows), truncated |-> truncated,
   error_message |-> error_message]

\* numbers of rows the statement may produce in the database
DbRowCounts == {0, 1, MAX_ROWS - 1, MAX_ROWS, MAX_ROWS + 1}

\* texts of the exceptions psycopg2 may raise
DbErrors == {"canceling statement due to statement timeout",
             "syntax error at or near",
             "no results to fetch"}

\* execute_query when the statement runs and produces `produced` rows
ExecuteSuccess(produced) ==
  LET rows == [k \in 1..Min(produced, MAX_ROWS) |-> <<k>>]
  IN QueryResult(TRUE, <<"col">>, rows, Len(rows) = MAX_ROWS, None)

\* execute_query when any step raises e
ExecuteFailure(e) == QueryResult(FALSE, <<>>, <<>>, FALSE, Some(e))

\* every QueryResult execute_query may return; it returns one for every input
ExecuteOutcomes ==
  {ExecuteSuccess(n) : n \in DbRowCounts} \cup {ExecuteFailure(e) : e \in DbErrors}

\* texts of the exceptions the LLM client may raise
ErrorTexts == {<<"connection", " ", "refused">>,
               <<"model", " ", "failed", " ", "to", " ", "SELECT", " ", "a", " ", "reply">>}

\* return value of generate_sql when the chat call raises e
GenerateErrorText(e) == <<"Error", " ", "calling", " ", "Ollama", ":", " ">> \o e

\* return value of retry_with_feedback when the chat call raises e
RetryErrorText(e) == <<"-", "-", " ", "Retry", " ", "failed", ":", " ">> \o e

(***************************************************************************)
(* AnswerGenerator.generate_answer (answer_generator.py)                   *)
(***************************************************************************)
\* whether generate_answer reaches the chat call
AnswerNeedsLLM(qr) == qr.success /\ qr.row_count # 0

\* Variant: a failed query is answered without its error message
AnswerWithoutLLMHidden(qr) ==
  IF ~qr.success
  THEN << <<"I couldn't get the answer because of a database error.">> >>
  ELSE << <<"I ran the query but found no results.">> >>

\* the answer when no chat call is made
AnswerWithoutLLM(qr) ==
  IF ~qr.success
  THEN << <<"I couldn't get the answer because of a database error: ">>, qr.error_message >>
  ELSE << <<"I ran the query but found no results.">> >>

\* the answer when the chat call returns text
AnswerFromLLM(qr, text) ==
  IF qr.truncated THEN << <<text>>, <<" (Note: Results were truncated to 200 rows.)">> >>
  ELSE << <<text>> >>

\* the answer when the chat call raises e
AnswerLLMError(e) == << <<"Error generating answer: ">>, <<e>> >>

(***************************************************************************)
(* ChatWithSQLPipeline (app/core/pipeline.py)                              *)
(***************************************************************************)
PipelineResult(q, generated_sql, validation_result, query_result, answer, clarification_needed) ==
  [question |-> q, generated_sql |-> generated_sql,
   validation_result |-> validation_result, query_result |-> query_result,
   answer |-> answer, clarification_needed |-> clarification_needed]

\* _serialize_query_result: the first five rows only
_serialize_query_result(qr) ==
  [success |-> qr.success, row_count |-> qr.row_count,
   rows |-> Slice(qr.rows, 1, Min(5, Len(qr.rows))), columns |-> qr.columns,
   error_message |-> qr.error_message]

\* "; ".join(validation.errors) behind the fixed opening of the answer
RECURSIVE JoinErrors(_)
JoinErrors(errors) ==
  IF errors = <<>> THEN <<>>
  ELSE IF Len(errors) = 1 THEN <<errors[1]>>
  ELSE <<errors[1], <<"; ">> >> \o JoinErrors(Tail(errors))

\* Variant: the answer reports the first validation error only
ValidationAnswerFirstOnly(errors) ==
  << <<"I generated SQL that didn't pass validation: ">> >> \o
    (IF errors = <<>> THEN <<>> ELSE <<errors[1]>>)

ValidationAnswer(errors) ==
  << <<"I generated SQL that didn't pass validation: ">> >> \o JoinErrors(errors)

\* allowed_tables of process_question
AllowedTables(full_context_schemas) == TableNames(full_context_schemas)

(***************************************************************************)
(* Inputs: questions and the texts the language model may return           *)
(***************************************************************************)
Questions == {<<"top", " ", "customers">>,
              <<"Recent", " ", "Orders", "?">>,
              <<"total", " ", "revenue", "?">>,
              <<"revenue", " ", "of", " ", "top", " ", "customers", " ", "in", " ", "total">>}

FromClauses ==
  {<<"FROM", " ", "customers", " ", "c">>,
   <<"FROM", " ", "payments">>,
   <<"FROM", " ", "customers", ",", " ", "payments">>,
   <<"FROM", " ", "\"", "payments", "\"">>,
   <<"FROM", " ", "public", ".", "payments">>,
   <<"FROM", " ", "customers", " ", "c", " ", "JOIN", " ", "orders", " ", "o">>,
   <<"from", " ", "Customers">>}

\* what may follow the FROM clause: nothing, a second statement, a UNION, a comment
ResponseTails ==
  {<<>>,
   <<";", " ", "DROP", " ", "TABLE", " ", "customers", ";">>,
   <<" ", "UNION", " ", "SELECT", " ", "*", " ", "FROM", " ", "orders">>,
   <<" ", "-", "-", " ", "Delete", " ", "later">>}

\* replies that are not a bare statement: nothing, prose, a fenced statement,
\* a statement behind a sentence, a statement that is no SELECT, a text whose
\* first word is cut in two by a block comment
SpecialResponses ==
  {<<>>,
   <<"I", " ", "cannot", " ", "answer">>,
   <<Fence, "sql", "\n", "SELECT", " ", "*", " ", "FROM", " ", "orders", ";", "\n", Fence>>,
   <<"Here", ":", " ", "SELECT", " ", "*", " ", "FROM", " ", "customers", ";">>,
   <<"DROP", " ", "TABLE", " ", "customers", ";">>,
   <<"SEL", "/*", "x", "*/", "ECT", " ", "*", " ", "FROM", " ", "orders">>}

\* the texts the chat call of generate_sql and retry_with_feedback may return
Responses ==
  {<<"SELECT", " ", "*", " ">> \o f \o t : f \in FromClauses, t \in ResponseTails}
    \cup SpecialResponses

(***************************************************************************)
(* State                                                                   *)
(***************************************************************************)
VARIABLES
  pc,                \* position of the request in process_question
  question,          \* the question of the request
  collection,        \* the Chroma collection: table name -> document
  schemas,           \* retrieved_schemas / full_context_schemas (one list object)
  allowed_tables,    \* allowed_tables of the request
  raw_sql,           \* raw_sql, then the reply of retry_with_feedback
  clean_sql,         \* clean_sql
  validation,        \* validation (None before step 5)
  corrected_sql,     \* corrected_sql (None before the retry)
  validation_retry,  \* validation_retry (None before the retry)
  query_result,      \* query_result (None before step 6)
  result,            \* the PipelineResult returned (None while running)
  raised,            \* the exception that left process_question (None if none)
  llm_failed,        \* which chat calls raised: subset of {"generate", "retry", "answer"}
  calls,             \* number of calls made to each collaborator
  executed,          \* arguments of the execute_query calls, in order
  validated,         \* arguments and verdicts of the parse_and_validate calls, in order
  corrections        \* arguments of the retry_with_feedback calls, in order

\* state of DatabaseExecutor.execute_query and of the database sessions
VARIABLES
  ex_pc,             \* position inside execute_query ("idle" between calls)
  ex_sql,            \* the sql argument of the call
  ex_start_time,     \* start_time
  ex_conn,           \* conn (None, or the index of the connection in connections)
  ex_description,    \* cur.description (None when the statement has no result set)
  ex_columns,        \* columns
  ex_rows,           \* rows
  ex_result,         \* the QueryResult built by a return statement (None before it)
  ex_returned,       \* the QueryResult the last call returned (None while running)
  ex_escaped,        \* the exception that left execute_query (None if none)
  ex_exception,      \* the exception raised in the running call and the statement
                     \* that raised it (None if none)
  ex_called_at,      \* the clock when the running call was entered
  ex_calls,          \* number of calls of execute_query so far
  connections,       \* every connection opened so far, in order of opening
  db_rows,           \* number of rows the executed statement produces
  clock              \* time.time()

\* state of a function applied on its own: the function, its argument, and
\* the values returned by its successive applications
VARIABLES fn, arg, returned

\* for index_schema: the schema most recently indexed under each table name
\* and the number of times the name was indexed
VARIABLES indexed

\* the requests that run side by side on the one pipeline object: for each
\* request the local variables of its process_question call
VARIABLES req

pipeline_vars == <<pc, question, collection, schemas, allowed_tables, raw_sql, clean_sql,
                   validation, corrected_sql, validation_retry, query_result, result,
                   raised, llm_failed, calls, executed, validated, corrections>>

executor_vars == <<ex_pc, ex_sql, ex_start_time, ex_conn, ex_description, ex_columns,
                   ex_rows, ex_result, ex_returned, ex_escaped, ex_exception, ex_called_at,
                   ex_calls, connections, db_rows, clock>>

function_vars == <<fn, arg, returned, indexed>>

request_vars == <<req>>

other_vars == <<executor_vars, function_vars, request_vars>>

vars == <<pipeline_vars, executor_vars, function_vars, request_vars>>

Collaborators == {"ambiguity", "retrieval", "lookup", "generation", "validation",
                  "execution", "correction", "summarization"}

Called(c) == [calls EXCEPT ![c] = @ + 1]

ValidationLog(sql, allowed, v) == [sql |-> sql, allowed |-> allowed, is_valid |-> v.is_valid]

InitRequest ==
  /\ question \in Questions
  /\ collection = ExampleCollection
  /\ schemas = <<>>
  /\ allowed_tables = {}
  /\ raw_sql = <<>>
  /\ clean_sql = <<>>
  /\ validation = None
  /\ corrected_sql = None
  /\ validation_retry = None
  /\ query_result = None
  /\ result = None
  /\ raised = None
  /\ llm_failed = {}
  /\ calls = [c \in Collaborators |-> 0]
  /\ executed = <<>>
  /\ validated = <<>>
  /\ corrections = <<>>

\* no call of execute_query is running and none was made
ExecutorIdle ==
  /\ ex_pc = "idle"
  /\ ex_sql = <<>>
  /\ ex_start_time = 0
  /\ ex_conn = None
  /\ ex_description = None
  /\ ex_columns = <<>>
  /\ ex_rows = <<>>
  /\ ex_result = None
  /\ ex_returned = None
  /\ ex_escaped = None
  /\ ex_exception = None
  /\ ex_called_at = 0
  /\ ex_calls = 0
  /\ connections = <<>>
  /\ db_rows = 0
  /\ clock = 0

\* no function is applied on its own
NoFunction == fn = "none" /\ arg = <<>> /\ returned = <<>> /\ indexed = <<>>

\* no requests run side by side
NoConcurrentRequests == req = <<>>

Init == pc = "handle_ambiguity" /\ InitRequest /\ ExecutorIdle /\ NoFunction /\ NoConcurrentRequests

(***************************************************************************)
(* process_question, one action per step between two external calls        *)
(***************************************************************************)
\* Variant: the clarification text is computed but the request goes on
HandleAmbiguityIgnored ==
  /\ pc = "handle_ambiguity"
  /\ calls' = Called("ambiguity")
  /\ pc' = "retrieve"
  /\ UNCHANGED other_vars
  /\ UNCHANGED corrections
  /\ UNCHANGED <<question, collection, schemas, allowed_tables, raw_sql, clean_sql,
                 validation, corrected_sql, validation_retry, query_result, result,
                 raised, llm_failed, executed, validated>>

\* Step 1: handle_ambiguity and the clarification short-circuit
HandleAmbiguity ==
  /\ pc = "handle_ambiguity"
  /\ calls' = Called("ambiguity")
  /\ LET ambiguity == handle_ambiguity(question)
     IN IF ambiguity # None
        THEN /\ result' = Some(PipelineResult(question, None, None, None, ambiguity[1], TRUE))
             /\ pc' = "done"
        ELSE /\ result' = result
             /\ pc' = "retrieve"
  /\ UNCHANGED other_vars
  /\ UNCHANGED corrections
  /\ UNCHANGED <<question, collection, schemas, allowed_tables, raw_sql, clean_sql,
                 validation, corrected_sql, validation_retry, query_result,
                 raised, llm_failed, executed, validated>>

\* Step 2: retrieve_relevant_tables returns a ranking
Retrieve ==
  /\ pc = "retrieve"
  /\ calls' = Called("retrieval")
  /\ \E r \in RetrievalResults(collection, TopK) : schemas' = r
  /\ pc' = "expand"
  /\ UNCHANGED other_vars
  /\ UNCHANGED corrections
  /\ UNCHANGED <<question, collection, allowed_tables, raw_sql, clean_sql,
                 validation, corrected_sql, validation_retry, query_result, result,
                 raised, llm_failed, executed, validated>>

\* Step 2: collection.query raises (embedding service or index unreachable);
\* process_question has no handler, the exception leaves it
RetrieveRaises ==
  /\ pc = "retrieve"
  /\ calls' = Called("retrieval")
  /\ raised' = Some("retrieval failed")
  /\ pc' = "raised"
  /\ UNCHANGED other_vars
  /\ UNCHANGED corrections
  /\ UNCHANGED <<question, collection, schemas, allowed_tables, raw_sql, clean_sql,
                 validation, corrected_sql, validation_retry, query_result, result,
                 llm_failed, executed, validated>>

\* Step 3: expand_with_related_tables, then allowed_tables
Expand ==
  /\ pc = "expand"
  /\ \E extras \in ExtrasOrders(collection, schemas) :
       schemas' = expand_with_related_tables(schemas, extras)
  /\ allowed_tables' = AllowedTables(schemas')
  /\ calls' = IF tables_to_add(schemas) # {} THEN Called("lookup") ELSE calls
  /\ pc' = "generate"
  /\ UNCHANGED other_vars
  /\ UNCHANGED corrections
  /\ UNCHANGED <<question, collection, raw_sql, clean_sql,
                 validation, corrected_sql, validation_retry, query_result, result,
                 raised, llm_failed, executed, validated>>

\* Step 3: collection.get raises; the exception leaves process_question
ExpandRaises ==
  /\ pc = "expand"
  /\ tables_to_add(schemas) # {}
  /\ calls' = Called("lookup")
  /\ raised' = Some("lookup failed")
  /\ pc' = "raised"
  /\ UNCHANGED other_vars
  /\ UNCHANGED corrections
  /\ UNCHANGED <<question, collection, schemas, allowed_tables, raw_sql, clean_sql,
                 validation, corrected_sql, validation_retry, query_result, result,
                 llm_failed, executed, validated>>

\* Step 4: generate_sql returns the reply of the model, parse_sql_from_response
Generate ==
  /\ pc = "generate"
  /\ calls' = Called("generation")
  /\ \E response \in Responses : raw_sql' = response
  /\ clean_sql' = parse_sql_from_response(raw_sql')
  /\ pc' = "validate"
  /\ UNCHANGED other_vars
  /\ UNCHANGED corrections
  /\ UNCHANGED <<question, collection, schemas, allowed_tables,
                 validation, corrected_sql, validation_retry, query_result, result,
                 raised, llm_failed, executed, validated>>

\* Step 4: the chat call raises, generate_sql returns the error text
GenerateFails ==
  /\ pc = "generate"
  /\ calls' = Called("generation")
  /\ \E e \in ErrorTexts : raw_sql' = GenerateErrorText(e)
  /\ clean_sql' = parse_sql_from_response(raw_sql')
  /\ llm_failed' = llm_failed \cup {"generate"}
  /\ pc' = "validate"
  /\ UNCHANGED other_vars
  /\ UNCHANGED corrections
  /\ UNCHANGED <<question, collection, schemas, allowed_tables,
                 validation, corrected_sql, validation_retry, query_result, result,
                 raised, executed, validated>>

\* Step 5: sanitize_sql, parse_and_validate and the short-circuit on invalid
Validate ==
  /\ pc = "validate"
  /\ calls' = Called("validation")
  /\ clean_sql' = sanitize_sql(clean_sql)
  /\ \E table_order \in TableOrders(clean_sql') :
       validation' = Some(parse_and_validate(clean_sql', allowed_tables, table_order))
  /\ validated' = Append(validated, ValidationLog(clean_sql', allowed_tables, validation'[1]))
  /\ IF ~validation'[1].is_valid
     THEN /\ result' = Some(PipelineResult(question, Some(clean_sql'), validation', None,
                                           ValidationAnswer(validation'[1].errors), FALSE))
          /\ pc' = "done"
     ELSE /\ result' = result
          /\ pc' = "execute"
  /\ UNCHANGED other_vars
  /\ UNCHANGED corrections
  /\ UNCHANGED <<question, collection, schemas, allowed_tables, raw_sql,
                 corrected_sql, validation_retry, query_result,
                 raised, llm_failed, executed>>

\* Step 6: execute_query(clean_sql)
Execute ==
  /\ pc = "execute"
  /\ calls' = Called("execution")
  /\ executed' = Append(executed, clean_sql)
  /\ \E qr \in ExecuteOutcomes : query_result' = Some(qr)
  /\ pc' = IF query_result'[1].success THEN "generate_answer" ELSE "retry"
  /\ UNCHANGED other_vars
  /\ UNCHANGED corrections
  /\ UNCHANGED <<question, collection, schemas, allowed_tables, raw_sql, clean_sql,
                 validation, corrected_sql, validation_retry, result,
                 raised, llm_failed, validated>>

\* Variant: the corrected statement is validated against a whitelist widened
\* by the tables the corrected statement itself names
AfterRetryWidened(reply) ==
  /\ raw_sql' = reply
  /\ corrected_sql' = Some(sanitize_sql(parse_sql_from_response(reply)))
  /\ LET widened == allowed_tables \cup
                      (IF Len(corrected_sql'[1]) = 0 THEN {}
                       ELSE _extract_tables(FirstStatement(corrected_sql'[1])))
     IN /\ \E table_order \in TableOrders(corrected_sql'[1]) :
             validation_retry' =
               Some(parse_and_validate(corrected_sql'[1], widened, table_order))
        /\ validated' = Append(validated,
                               ValidationLog(corrected_sql'[1], widened, validation_retry'[1]))
  /\ IF validation_retry'[1].is_valid
     THEN /\ clean_sql' = corrected_sql'[1]
          /\ validation' = validation_retry'
          /\ pc' = "execute_retry"
     ELSE /\ clean_sql' = clean_sql
          /\ validation' = validation
          /\ pc' = "generate_answer"

\* what follows the reply of retry_with_feedback: extraction, sanitizing,
\* validation against allowed_tables, and the choice to execute again
AfterRetry(reply) ==
  /\ raw_sql' = reply
  /\ corrected_sql' = Some(sanitize_sql(parse_sql_from_response(reply)))
  /\ \E table_order \in TableOrders(corrected_sql'[1]) :
       validation_retry' =
         Some(parse_and_validate(corrected_sql'[1], allowed_tables, table_order))
  /\ validated' = Append(validated,
                         ValidationLog(corrected_sql'[1], allowed_tables, validation_retry'[1]))
  /\ IF validation_retry'[1].is_valid
     THEN /\ clean_sql' = corrected_sql'[1]
          /\ validation' = validation_retry'
          /\ pc' = "execute_retry"
     ELSE /\ clean_sql' = clean_sql
          /\ validation' = validation
          /\ pc' = "generate_answer"

\* Variant: the correction is asked for the response of the model as it
\* came, before extraction and sanitizing
CorrectionArgumentsRaw ==
  [sql |-> raw_sql, error |-> query_result[1].error_message,
   question |-> question, schema_context |-> schemas]

\* the arguments of retry_with_feedback: the statement that failed, its error
\* message, the question and the expanded context
CorrectionArguments ==
  [sql |-> clean_sql, error |-> query_result[1].error_message,
   question |-> question, schema_context |-> schemas]

\* Retry: retry_with_feedback returns the reply of the model
Retry ==
  /\ pc = "retry"
  /\ calls' = [calls EXCEPT !["correction"] = @ + 1, !["validation"] = @ + 1]
  /\ \E response \in Responses : AfterRetry(response)
  /\ corrections' = Append(corrections, CorrectionArguments)
  /\ UNCHANGED other_vars
  /\ UNCHANGED <<question, collection, schemas, allowed_tables, query_result, result,
                 raised, llm_failed, executed>>

\* Retry: the chat call raises, retry_with_feedback returns a comment line
RetryFails ==
  /\ pc = "retry"
  /\ calls' = [calls EXCEPT !["correction"] = @ + 1, !["validation"] = @ + 1]
  /\ \E e \in ErrorTexts : AfterRetry(RetryErrorText(e))
  /\ llm_failed' = llm_failed \cup {"retry"}
  /\ corrections' = Append(corrections, CorrectionArguments)
  /\ UNCHANGED other_vars
  /\ UNCHANGED <<question, collection, schemas, allowed_tables, query_result, result,
                 raised, executed>>

\* Variant: a failed second execution asks for another correction
ExecuteRetryAgain ==
  /\ pc = "execute_retry"
  /\ calls' = Called("execution")
  /\ executed' = Append(executed, corrected_sql[1])
  /\ \E qr \in ExecuteOutcomes : query_result' = Some(qr)
  /\ pc' = IF query_result'[1].success THEN "generate_answer" ELSE "retry"
  /\ UNCHANGED other_vars
  /\ UNCHANGED corrections
  /\ UNCHANGED <<question, collection, schemas, allowed_tables, raw_sql, clean_sql,
                 validation, corrected_sql, validation_retry, result,
                 raised, llm_failed, validated>>

\* Retry: execute_query(corrected_sql)
ExecuteRetry ==
  /\ pc = "execute_retry"
  /\ calls' = Called("execution")
  /\ executed' = Append(executed, corrected_sql[1])
  /\ \E qr \in ExecuteOutcomes : query_result' = Some(qr)
  /\ pc' = "generate_answer"
  /\ UNCHANGED other_vars
  /\ UNCHANGED corrections
  /\ UNCHANGED <<question, collection, schemas, allowed_tables, raw_sql, clean_sql,
                 validation, corrected_sql, validation_retry, result,
                 raised, llm_failed, validated>>

\* Variant: the result reports the statement generated first
FinalResultOriginal(answer) ==
  Some(PipelineResult(question, Some(executed[1]), validation,
                      Some(_serialize_query_result(query_result[1])), answer, FALSE))

FinalResult(answer) ==
  Some(PipelineResult(question, Some(clean_sql), validation,
                      Some(_serialize_query_result(query_result[1])), answer, FALSE))

\* Step 7: generate_answer returns without a chat call
AnswerDirect ==
  /\ pc = "generate_answer"
  /\ ~AnswerNeedsLLM(query_result[1])
  /\ result' = FinalResult(AnswerWithoutLLM(query_result[1]))
  /\ pc' = "done"
  /\ UNCHANGED other_vars
  /\ UNCHANGED corrections
  /\ UNCHANGED <<question, collection, schemas, allowed_tables, raw_sql, clean_sql,
                 validation, corrected_sql, validation_retry, query_result,
                 raised, llm_failed, calls, executed, validated>>

\* Step 7: generate_answer asks the model for the summary
AnswerLLM ==
  /\ pc = "generate_answer"
  /\ AnswerNeedsLLM(query_result[1])
  /\ calls' = Called("summarization")
  /\ result' = FinalResult(AnswerFromLLM(query_result[1], "summary"))
  /\ pc' = "done"
  /\ UNCHANGED other_vars
  /\ UNCHANGED corrections
  /\ UNCHANGED <<question, collection, schemas, allowed_tables, raw_sql, clean_sql,
                 validation, corrected_sql, validation_retry, query_result,
                 raised, llm_failed, executed, validated>>

\* Variant: a failed summary call is repeated once before giving up
AnswerLLMFailsRepeated ==
  /\ pc = "generate_answer"
  /\ AnswerNeedsLLM(query_result[1])
  /\ calls' = [calls EXCEPT !["summarization"] = @ + 2]
  /\ result' = FinalResult(AnswerLLMError("connection refused"))
  /\ llm_failed' = llm_failed \cup {"answer"}
  /\ pc' = "done"
  /\ UNCHANGED other_vars
  /\ UNCHANGED corrections
  /\ UNCHANGED <<question, collection, schemas, allowed_tables, raw_sql, clean_sql,
                 validation, corrected_sql, validation_retry, query_result,
                 raised, executed, validated>>

\* Step 7: the chat call of generate_answer raises
AnswerLLMFails ==
  /\ pc = "generate_answer"
  /\ AnswerNeedsLLM(query_result[1])
  /\ calls' = Called("summarization")
  /\ result' = FinalResult(AnswerLLMError("connection refused"))
  /\ llm_failed' = llm_failed \cup {"answer"}
  /\ pc' = "done"
  /\ UNCHANGED other_vars
  /\ UNCHANGED corrections
  /\ UNCHANGED <<question, collection, schemas, allowed_tables, raw_sql, clean_sql,
                 validation, corrected_sql, validation_retry, query_result,
                 raised, executed, validated>>

Next ==
  \/ HandleAmbiguity
  \/ Retrieve
  \/ RetrieveRaises
  \/ Expand
  \/ ExpandRaises
  \/ Generate
  \/ GenerateFails
  \/ Validate
  \/ Execute
  \/ Retry
  \/ RetryFails
  \/ ExecuteRetry
  \/ AnswerDirect
  \/ AnswerLLM
  \/ AnswerLLMFails

Spec == Init /\ [][Next]_vars

\* the stages of process_question, and its two ends
Stages == {"handle_ambiguity", "retrieve", "expand", "generate", "validate", "execute",
           "retry", "execute_retry", "generate_answer", "done", "raised"}

\* process_question has returned or raised
Finished == pc \in {"done", "raised"}

\* the call or computation the request is in returns or fails, and the
\* request leaves the stage it is in
Returns == ~Finished /\ pc' \in Stages \ {pc}

\* the request when every external call eventually returns or fails: every
\* step of Next leaves a stage and every stage of an unfinished request has a
\* step, so a request that stays unfinished eventually leaves its stage
SpecFair == Init /\ [][Next]_vars /\ WF_pc(Returns)

(***************************************************************************)
(* DatabaseExecutor.execute_query, statement by statement                  *)
(***************************************************************************)
MaxCalls == 2
MaxClock == 2

\* no request is in the pipeline (the collection is set by each specification)
NoRequest ==
  /\ pc = "none"
  /\ question = <<>>
  /\ schemas = <<>>
  /\ allowed_tables = {}
  /\ raw_sql = <<>>
  /\ clean_sql = <<>>
  /\ validation = None
  /\ corrected_sql = None
  /\ validation_retry = None
  /\ query_result = None
  /\ result = None
  /\ raised = None
  /\ llm_failed = {}
  /\ calls = [c \in Collaborators |-> 0]
  /\ executed = <<>>
  /\ validated = <<>>
  /\ corrections = <<>>

\* statements handed to execute_query
ExecutorSqls == {<<"SELECT", " ", "*", " ", "FROM", " ", "orders">>,
                 <<"DROP", " ", "TABLE", " ", "orders">>}

\* a session as psycopg2.connect returns it
Connection ==
  [open |-> TRUE, readonly |-> FALSE, statement_timeout |-> FALSE, executed |-> FALSE]

\* the statements of execute_query that may raise
RaisingSteps == {"connect", "set_session", "set_timeout", "execute", "description", "fetch"}

\* a QueryResult with its execution_time_ms
Timed(qr, execution_time_ms) == qr @@ [execution_time_ms |-> execution_time_ms]

\* execution_time = (time.time() - start_time) * 1000
execution_time == (clock - ex_start_time) * 1000

\* entry of execute_query: start_time = time.time(); conn = None
Call(sql) ==
  /\ ex_pc = "idle"
  /\ ex_calls < MaxCalls
  /\ ex_calls' = ex_calls + 1
  /\ ex_sql' = sql
  /\ ex_start_time' = clock
  /\ ex_called_at' = clock
  /\ ex_conn' = None
  /\ ex_description' = None
  /\ ex_columns' = <<>>
  /\ ex_rows' = <<>>
  /\ ex_result' = None
  /\ ex_returned' = None
  /\ ex_exception' = None
  /\ ex_pc' = "connect"
  /\ UNCHANGED <<ex_escaped, connections, db_rows, clock>>
  /\ UNCHANGED <<pipeline_vars, function_vars, request_vars>>

\* conn = self._get_connection()
Connect ==
  /\ ex_pc = "connect"
  /\ connections' = Append(connections, Connection)
  /\ ex_conn' = Some(Len(connections) + 1)
  /\ ex_pc' = "set_session"
  /\ UNCHANGED <<ex_sql, ex_start_time, ex_description, ex_columns, ex_rows, ex_result,
                 ex_returned, ex_escaped, ex_called_at, ex_calls, db_rows, clock>>
  /\ UNCHANGED <<ex_exception, pipeline_vars, function_vars, request_vars>>

\* Variant: the session is left writable
SetSessionWritable ==
  /\ ex_pc = "set_session"
  /\ connections' = [connections EXCEPT ![ex_conn[1]].readonly = FALSE]
  /\ ex_pc' = "set_timeout"
  /\ UNCHANGED <<ex_sql, ex_start_time, ex_conn, ex_description, ex_columns, ex_rows,
                 ex_result, ex_returned, ex_escaped, ex_called_at, ex_calls, db_rows, clock>>
  /\ UNCHANGED <<ex_exception, pipeline_vars, function_vars, request_vars>>

\* conn.set_session(readonly=True)
SetSession ==
  /\ ex_pc = "set_session"
  /\ connections' = [connections EXCEPT ![ex_conn[1]].readonly = TRUE]
  /\ ex_pc' = "set_timeout"
  /\ UNCHANGED <<ex_sql, ex_start_time, ex_conn, ex_description, ex_columns, ex_rows,
                 ex_result, ex_returned, ex_escaped, ex_called_at, ex_calls, db_rows, clock>>
  /\ UNCHANGED <<ex_exception, pipeline_vars, function_vars, request_vars>>

\* with conn.cursor() as cur: cur.execute("SET statement_timeout = ...")
SetTimeout ==
  /\ ex_pc = "set_timeout"
  /\ connections' = [connections EXCEPT ![ex_conn[1]].statement_timeout = TRUE]
  /\ ex_pc' = "execute"
  /\ UNCHANGED <<ex_sql, ex_start_time, ex_conn, ex_description, ex_columns, ex_rows,
                 ex_result, ex_returned, ex_escaped, ex_called_at, ex_calls, db_rows, clock>>
  /\ UNCHANGED <<ex_exception, pipeline_vars, function_vars, request_vars>>

\* cur.execute(sql): the statement produces a result set of n rows, or none
ExecuteSql ==
  /\ ex_pc = "execute"
  /\ \E n \in DbRowCounts, has_result_set \in BOOLEAN :
       /\ db_rows' = IF has_result_set THEN n ELSE 0
       /\ ex_description' = IF has_result_set THEN Some(<<"col">>) ELSE None
  /\ connections' = [connections EXCEPT ![ex_conn[1]].executed = TRUE]
  /\ ex_pc' = "description"
  /\ UNCHANGED <<ex_sql, ex_start_time, ex_conn, ex_columns, ex_rows, ex_result,
                 ex_returned, ex_escaped, ex_called_at, ex_calls, clock>>
  /\ UNCHANGED <<ex_exception, pipeline_vars, function_vars, request_vars>>

\* columns = [desc[0] for desc in cur.description] if cur.description else []
ReadColumns ==
  /\ ex_pc = "description"
  /\ ex_columns' = IF ex_description = None THEN <<>> ELSE ex_description[1]
  /\ ex_pc' = "fetch"
  /\ UNCHANGED <<ex_sql, ex_start_time, ex_conn, ex_description, ex_rows, ex_result,
                 ex_returned, ex_escaped, ex_called_at, ex_calls, connections, db_rows,
                 clock>>
  /\ UNCHANGED <<ex_exception, pipeline_vars, function_vars, request_vars>>

FetchAll ==
  /\ ex_pc = "fetch"
  /\ ex_description # None
  /\ ex_rows' = [k \in 1..db_rows |-> <<k>>]
  /\ ex_pc' = "return"
  /\ UNCHANGED <<ex_sql, ex_start_time, ex_conn, ex_description, ex_columns, ex_result,
                 ex_returned, ex_escaped, ex_called_at, ex_calls, connections, db_rows,
                 clock>>
  /\ UNCHANGED <<ex_exception, pipeline_vars, function_vars, request_vars>>

\* rows = cur.fetchmany(MAX_ROWS); it raises when there is no result set
Fetch ==
  /\ ex_pc = "fetch"
  /\ ex_description # None
  /\ ex_rows' = [k \in 1..Min(db_rows, MAX_ROWS) |-> <<k>>]
  /\ ex_pc' = "return"
  /\ UNCHANGED <<ex_sql, ex_start_time, ex_conn, ex_description, ex_columns, ex_result,
                 ex_returned, ex_escaped, ex_called_at, ex_calls, connections, db_rows,
                 clock>>
  /\ UNCHANGED <<ex_exception, pipeline_vars, function_vars, request_vars>>

ReturnSuccessAboveCap ==
  /\ ex_pc = "return"
  /\ ex_result' = Some(Timed(QueryResult(TRUE, ex_columns, ex_rows,
                                         Len(ex_rows) > MAX_ROWS, None),
                             execution_time))
  /\ ex_pc' = "finally"
  /\ UNCHANGED <<ex_sql, ex_start_time, ex_conn, ex_description, ex_columns, ex_rows,
                 ex_returned, ex_escaped, ex_called_at, ex_calls, connections, db_rows,
                 clock>>
  /\ UNCHANGED <<ex_exception, pipeline_vars, function_vars, request_vars>>

\* truncated = len(rows) == MAX_ROWS; return QueryResult(success=True, ...)
ReturnSuccess ==
  /\ ex_pc = "return"
  /\ ex_result' = Some(Timed(QueryResult(TRUE, ex_columns, ex_rows,
                                         Len(ex_rows) = MAX_ROWS, None),
                             execution_time))
  /\ ex_pc' = "finally"
  /\ UNCHANGED <<ex_sql, ex_start_time, ex_conn, ex_description, ex_columns, ex_rows,
                 ex_returned, ex_escaped, ex_called_at, ex_calls, connections, db_rows,
                 clock>>
  /\ UNCHANGED <<ex_exception, pipeline_vars, function_vars, request_vars>>

RaisesPastConnect ==
  /\ ex_pc \in RaisingSteps
  /\ \E e \in DbErrors :
       /\ (ex_pc = "fetch" /\ ex_description = None) => e = "no results to fetch"
       /\ ex_exception' = Some([raised_by |-> ex_pc, text |-> e])
       /\ IF ex_pc = "connect"
          THEN ex_escaped' = Some(e) /\ ex_result' = None
          ELSE /\ ex_result' = Some(Timed(ExecuteFailure(e), execution_time))
               /\ ex_escaped' = ex_escaped
  /\ ex_pc' = "finally"
  /\ UNCHANGED <<ex_sql, ex_start_time, ex_conn, ex_description, ex_columns, ex_rows,
                 ex_returned, ex_called_at, ex_calls, connections, db_rows, clock>>
  /\ UNCHANGED <<pipeline_vars, function_vars, request_vars>>

\* a statement of the try block raises e; except Exception as e: return
\* QueryResult(success=False, ..., error_message=str(e), ...)
Raises ==
  /\ ex_pc \in RaisingSteps
  /\ \E e \in DbErrors :
       /\ (ex_pc = "fetch" /\ ex_description = None) => e = "no results to fetch"
       /\ ex_exception' = Some([raised_by |-> ex_pc, text |-> e])
       /\ ex_result' = Some(Timed(ExecuteFailure(e), execution_time))
  /\ ex_pc' = "finally"
  /\ UNCHANGED <<ex_sql, ex_start_time, ex_conn, ex_description, ex_columns, ex_rows,
                 ex_returned, ex_escaped, ex_called_at, ex_calls, connections, db_rows,
                 clock>>
  /\ UNCHANGED <<pipeline_vars, function_vars, request_vars>>

FinallyAfterSuccess ==
  /\ ex_pc = "finally"
  /\ connections' = IF ex_conn # None /\ ex_result # None /\ ex_result[1].success
                    THEN [connections EXCEPT ![ex_conn[1]].open = FALSE]
                    ELSE connections
  /\ ex_returned' = ex_result
  /\ ex_pc' = "idle"
  /\ UNCHANGED <<ex_sql, ex_start_time, ex_conn, ex_description, ex_columns, ex_rows,
                 ex_result, ex_escaped, ex_called_at, ex_calls, db_rows, clock>>
  /\ UNCHANGED <<ex_exception, pipeline_vars, function_vars, request_vars>>

\* finally: if conn: conn.close(); then the call returns
Finally ==
  /\ ex_pc = "finally"
  /\ connections' = IF ex_conn # None
                    THEN [connections EXCEPT ![ex_conn[1]].open = FALSE]
                    ELSE connections
  /\ ex_returned' = ex_result
  /\ ex_pc' = "idle"
  /\ UNCHANGED <<ex_sql, ex_start_time, ex_conn, ex_description, ex_columns, ex_rows,
                 ex_result, ex_escaped, ex_called_at, ex_calls, db_rows, clock>>
  /\ UNCHANGED <<ex_exception, pipeline_vars, function_vars, request_vars>>

\* time passes while the call works; the time that passes after the
\* QueryResult is built does not enter it
Tick ==
  /\ ex_pc \notin {"idle", "finally"}
  /\ clock < MaxClock
  /\ clock' = clock + 1
  /\ UNCHANGED <<ex_pc, ex_sql, ex_start_time, ex_conn, ex_description, ex_columns,
                 ex_rows, ex_result, ex_returned, ex_escaped, ex_called_at, ex_calls,
                 connections, db_rows>>
  /\ UNCHANGED <<ex_exception, pipeline_vars, function_vars, request_vars>>

InitExecutor ==
  /\ NoRequest /\ collection = ExampleCollection
  /\ NoFunction
  /\ NoConcurrentRequests
  /\ ExecutorIdle

NextExecutor ==
  \/ \E sql \in ExecutorSqls : Call(sql)
  \/ Connect
  \/ SetSession
  \/ SetTimeout
  \/ ExecuteSql
  \/ ReadColumns
  \/ Fetch
  \/ ReturnSuccess
  \/ Raises
  \/ Finally
  \/ Tick

SpecExecutor == InitExecutor /\ [][NextExecutor]_vars

(***************************************************************************)
(* SQLValidator.sanitize_sql applied to a text and again to its own result  *)
(***************************************************************************)
MaxApplications == 2

\* statements with and without comments, among them one in which a block
\* comment stands between two "-" characters
SanitizeBodies ==
  {<<>>,
   <<"SELECT", " ", "*", " ", "FROM", " ", "orders">>,
   <<"SELECT", " ", " ", "*", "\n", "FROM", " ", "orders">>,
   <<"SELECT", " ", "*", " ", "FROM", " ", "orders", " ", "-", "-", " ", "x">>,
   <<"SELECT", " ", "*", " ", "-", "-", " ", "x", "\n", "FROM", " ", "orders">>,
   <<"SELECT", " ", "*", " ", "/*", "x", "*/", " ", "FROM", " ", "orders">>,
   <<"SELECT", " ", "*", " ", "FROM", " ", "orders", " ", "-", "/*", "x", "*/", "-",
     " ", "drop">>,
   <<"SELECT", " ", "*", ";", " ", "DROP", " ", "TABLE", " ", "orders">>}

\* ends of the text: no terminator, one, several, several separated by spaces
SanitizeTails ==
  {<<>>, <<";">>, <<";", ";">>, <<";", " ", ";">>, <<" ", ";", " ">>, <<";", "\n">>}

SanitizeInputs == {b \o t : b \in SanitizeBodies, t \in SanitizeTails}

\* the text the next application receives
NextArgument == IF returned = <<>> THEN arg ELSE returned[Len(returned)]

ApplySanitize ==
  /\ fn = "sanitize_sql"
  /\ Len(returned) < MaxApplications
  /\ returned' = Append(returned, sanitize_sql(NextArgument))
  /\ UNCHANGED <<fn, arg, indexed, pipeline_vars, executor_vars, request_vars>>

InitSanitize ==
  /\ NoRequest /\ collection = ExampleCollection
  /\ ExecutorIdle
  /\ fn = "sanitize_sql"
  /\ arg \in SanitizeInputs
  /\ returned = <<>>
  /\ indexed = <<>>
  /\ NoConcurrentRequests

NextSanitize == ApplySanitize

SpecSanitize == InitSanitize /\ [][NextSanitize]_vars

(***************************************************************************)
(* SchemaIndexer.expand_with_related_tables applied to a retrieved context  *)
(* and again to its own result                                             *)
(***************************************************************************)
MaxContext == 2

\* the collection when only these tables were indexed
Indexed(tables) == [t \in tables |-> ExampleCollection[t]]

\* contents of the collection: every table of the example schema, or only
\* the tables that hold foreign keys
Stores == {ExampleCollection, Indexed({"orders", "order_items", "payments"})}

\* retrieved contexts: rankings of at most MaxContext documents of the collection
Contexts(coll) ==
  LET docs == {coll[t] : t \in DOMAIN coll}
  IN UNION {Orderings(D) : D \in {X \in SUBSET docs : Cardinality(X) <= MaxContext}}

ApplyExpand ==
  /\ fn = "expand_with_related_tables"
  /\ Len(returned) < MaxApplications
  /\ \E extras \in ExtrasOrders(collection, NextArgument) :
       returned' = Append(returned, expand_with_related_tables(NextArgument, extras))
  /\ UNCHANGED <<fn, arg, indexed, pipeline_vars, executor_vars, request_vars>>

InitExpand ==
  /\ NoRequest
  /\ ExecutorIdle
  /\ collection \in Stores
  /\ fn = "expand_with_related_tables"
  /\ arg \in Contexts(collection)
  /\ returned = <<>>
  /\ indexed = <<>>
  /\ NoConcurrentRequests

NextExpand == ApplyExpand

SpecExpand == InitExpand /\ [][NextExpand]_vars

(***************************************************************************)
(* SQLGenerator.parse_sql_from_response applied to a model response        *)
(***************************************************************************)
\* what the model may write in front of the statement
ResponsePrefixes ==
  {<<>>, <<"Here", ":", " ">>, <<Fence, "sql", "\n">>, <<Fence, "\n">>}

\* the statements of the response: one, one with its terminator, several
\* terminated ones, none that is a SELECT
ResponseBodies ==
  {<<"SELECT", " ", "*", " ", "FROM", " ", "orders">>,
   <<"SELECT", " ", "*", " ", "FROM", " ", "orders", ";">>,
   <<"SELECT", " ", "*", " ", "FROM", " ", "orders", ";", " ",
     "DROP", " ", "TABLE", " ", "orders", ";">>,
   <<"select", " ", "*", " ", "from", " ", "orders", ";", "\n",
     "SELECT", " ", "*", " ", "FROM", " ", "customers", ";">>,
   <<"DROP", " ", "TABLE", " ", "orders", ";">>,
   <<"I", " ", "cannot", " ", "answer">>}

\* what the model may write behind the statement
ResponseSuffixes ==
  {<<>>, <<"\n", Fence>>, <<" ", "Delete", " ", "later">>,
   <<"\n", "\n", "I", " ", "cannot", " ", "answer", ".">>}

ExtractInputs ==
  {p \o b \o s : p \in ResponsePrefixes, b \in ResponseBodies, s \in ResponseSuffixes}
    \cup Responses

ApplyExtract ==
  /\ fn = "parse_sql_from_response"
  /\ returned = <<>>
  /\ returned' = <<parse_sql_from_response(arg)>>
  /\ UNCHANGED <<fn, arg, indexed, pipeline_vars, executor_vars, request_vars>>

InitExtract ==
  /\ NoRequest /\ collection = ExampleCollection
  /\ ExecutorIdle
  /\ fn = "parse_sql_from_response"
  /\ arg \in ExtractInputs
  /\ returned = <<>>
  /\ indexed = <<>>
  /\ NoConcurrentRequests

NextExtract == ApplyExtract

SpecExtract == InitExtract /\ [][NextExtract]_vars

(***************************************************************************)
(* SchemaIndexer.index_schema called again and again on one collection     *)
(***************************************************************************)
MaxTables == 2
MaxIndexCalls == 2

\* one entry of schema_metadata (description and column types do not reach
\* the part of the document the program reads back)
TableSchema(table_name, columns, foreign_keys) ==
  [table_name |-> table_name, columns |-> columns, foreign_keys |-> foreign_keys]

ForeignKey(column, references_table) ==
  [column |-> column, references_table |-> references_table]

\* the entries the callers index: two tables with one schema each and three
\* versions of orders (one FK; two FKs; an FK on a column that is not listed)
TableSchemas ==
  {TableSchema("customers", <<"customer_id", "name">>, <<>>),
   TableSchema("payments", <<"payment_id", "order_id">>,
               <<ForeignKey("order_id", "orders")>>),
   TableSchema("orders", <<"order_id", "customer_id">>,
               <<ForeignKey("customer_id", "customers")>>),
   TableSchema("orders", <<"order_id", "customer_id", "product_id">>,
               <<ForeignKey("customer_id", "customers"),
                 ForeignKey("product_id", "products")>>),
   TableSchema("orders", <<"order_id">>,
               <<ForeignKey("customer_id", "customers")>>)}

\* the FK marker of one column: the first foreign key on it, if any
FkMarker(table, column) ==
  LET hits == {k \in 1..Len(table.foreign_keys) : table.foreign_keys[k].column = column}
  IN IF hits = {} THEN <<>>
     ELSE <<table.foreign_keys[CHOOSE k \in hits : \A m \in hits : k <= m].references_table>>

RECURSIVE FkMarkersFrom(_, _)
FkMarkersFrom(table, i) ==
  IF i > Len(table.columns) THEN <<>>
  ELSE FkMarker(table, table.columns[i]) \o FkMarkersFrom(table, i + 1)

\* the document index_schema writes for one table
Render(table) == Document(table.table_name, FkMarkersFrom(table, 1))

upsert_kept(coll, ids, documents) ==
  [id \in DOMAIN coll \cup Range(ids) |->
     IF id \in DOMAIN coll THEN coll[id]
     ELSE documents[CHOOSE k \in 1..Len(ids) : ids[k] = id]]

\* collection.upsert(ids=ids, documents=documents, ...): ids are unique here
upsert(coll, ids, documents) ==
  [id \in DOMAIN coll \cup Range(ids) |->
     IF id \in Range(ids) THEN documents[CHOOSE k \in 1..Len(ids) : ids[k] = id]
     ELSE coll[id]]

\* schema_metadata of one call: at most MaxTables entries
SchemaLists ==
  UNION {[1..n -> TableSchemas] : n \in 0..MaxTables}

\* ids of the call
Ids(schema_metadata) == [k \in 1..Len(schema_metadata) |-> schema_metadata[k].table_name]

\* some table name stands twice in the ids
DuplicateIds(ids) == \E i, j \in 1..Len(ids) : i # j /\ ids[i] = ids[j]

\* index_schema(schema_metadata) returns: nothing to upsert, or the upsert
\* went through.  cached_schema_metadata is written and never read.
IndexSchema(schema_metadata) ==
  /\ fn = "index_schema"
  /\ Len(returned) < MaxIndexCalls
  /\ ~DuplicateIds(Ids(schema_metadata))
  /\ arg' = schema_metadata
  /\ collection' = IF schema_metadata = <<>> THEN collection
                   ELSE upsert(collection, Ids(schema_metadata),
                               [k \in 1..Len(schema_metadata) |-> Render(schema_metadata[k])])
  /\ indexed' = [n \in DOMAIN indexed \cup Range(Ids(schema_metadata)) |->
                   IF n \in Range(Ids(schema_metadata))
                   THEN [schema |-> schema_metadata[CHOOSE k \in 1..Len(schema_metadata) :
                                                      schema_metadata[k].table_name = n],
                         times |-> IF n \in DOMAIN indexed THEN indexed[n].times + 1 ELSE 1]
                   ELSE indexed[n]]
  /\ returned' = Append(returned, "None")
  /\ UNCHANGED <<fn, executor_vars, request_vars>>
  /\ UNCHANGED <<pc, question, schemas, allowed_tables, raw_sql, clean_sql, validation,
                 corrected_sql, validation_retry, query_result, result, raised,
                 llm_failed, calls, executed, validated, corrections>>

\* index_schema(schema_metadata) raises: the collection refuses ids that
\* hold a name twice, or the embedding call fails; nothing is stored
IndexSchemaRaises(schema_metadata) ==
  /\ fn = "index_schema"
  /\ Len(returned) < MaxIndexCalls
  /\ schema_metadata # <<>>
  /\ arg' = schema_metadata
  /\ returned' = Append(returned, IF DuplicateIds(Ids(schema_metadata))
                                  THEN "DuplicateIDError" ELSE "embedding failed")
  /\ UNCHANGED <<fn, indexed, executor_vars, request_vars>>
  /\ UNCHANGED pipeline_vars

InitIndex ==
  /\ NoRequest
  /\ collection = <<>>
  /\ ExecutorIdle
  /\ NoConcurrentRequests
  /\ fn = "index_schema"
  /\ arg = <<>>
  /\ returned = <<>>
  /\ indexed = <<>>

NextIndex ==
  \/ \E schema_metadata \in SchemaLists : IndexSchema(schema_metadata)
  \/ \E schema_metadata \in SchemaLists : IndexSchemaRaises(schema_metadata)

SpecIndex == InitIndex /\ [][NextIndex]_vars

(***************************************************************************)
(* Several process_question calls side by side on the one pipeline object  *)
(* (app/api/main.py, ask_question).  Every variable of process_question    *)
(* and of execute_query is a local of its call; the objects the calls      *)
(* share are the pipeline, its collaborators and the collection.           *)
(***************************************************************************)
Requests == {"r1", "r2"}

RequestQuestions == {<<"total", " ", "revenue", "?">>, <<"top", " ", "customers">>}

\* rankings retrieve_relevant_tables may return
RequestContexts == {<<ExampleCollection["orders"]>>, <<ExampleCollection["payments"]>>}

\* texts the chat calls may return
RequestResponses == {<<"SELECT", " ", "*", " ", "FROM", " ", "customers", " ", "c">>,
                     <<"SELECT", " ", "*", " ", "FROM", " ", "payments">>}

\* what execute_query may return once it holds a connection
RequestOutcomes == {ExecuteSuccess(1), ExecuteFailure("syntax error at or near")}

\* the external answers a request has received so far
NothingHeard == [context |-> <<>>, response |-> <<>>, outcomes |-> <<>>, reply |-> <<>>]

\* the locals of a process_question call on entry
Locals(q) ==
  [pc |-> "start", question |-> q, schemas |-> <<>>, allowed_tables |-> {},
   raw_sql |-> <<>>, clean_sql |-> <<>>, validation |-> None, query_result |-> None,
   conn |-> None, conns |-> <<>>, result |-> None, heard |-> NothingHeard]

\* the locals of execute_query other than the connections stay as they are
ExecutorLocalsUnchanged ==
  UNCHANGED <<ex_pc, ex_sql, ex_start_time, ex_conn, ex_description, ex_columns, ex_rows,
              ex_result, ex_returned, ex_escaped, ex_exception, ex_called_at, ex_calls,
              db_rows, clock>>

\* Step 1 of request r
RStart(r) ==
  /\ req[r].pc = "start"
  /\ LET ambiguity == handle_ambiguity(req[r].question)
     IN req' = [req EXCEPT ![r] =
                  IF ambiguity # None
                  THEN [@ EXCEPT !.pc = "done",
                                 !.result = Some(PipelineResult(req[r].question, None, None, None,
                                                                ambiguity[1], TRUE))]
                  ELSE [@ EXCEPT !.pc = "retrieve"]]
  /\ UNCHANGED <<pipeline_vars, executor_vars, function_vars>>

RContextShared(r) ==
  /\ req[r].pc = "retrieve"
  /\ \E ctx \in RequestContexts : \E extras \in ExtrasOrders(collection, ctx) :
       LET full == expand_with_related_tables(ctx, extras)
       IN req' = [x \in Requests |->
                    IF x = r
                    THEN [req[x] EXCEPT !.pc = "generate", !.schemas = full,
                                        !.allowed_tables = AllowedTables(full),
                                        !.heard.context = ctx]
                    ELSE [req[x] EXCEPT !.allowed_tables = AllowedTables(full)]]
  /\ UNCHANGED <<pipeline_vars, executor_vars, function_vars>>

\* Steps 2 and 3 of request r: retrieval, expansion, allowed_tables
RContext(r) ==
  /\ req[r].pc = "retrieve"
  /\ \E ctx \in RequestContexts : \E extras \in ExtrasOrders(collection, ctx) :
       LET full == expand_with_related_tables(ctx, extras)
       IN req' = [req EXCEPT ![r] = [@ EXCEPT !.pc = "generate", !.schemas = full,
                                                !.allowed_tables = AllowedTables(full),
                                                !.heard.context = ctx]]
  /\ UNCHANGED <<pipeline_vars, executor_vars, function_vars>>

\* Step 4 of request r
RGenerate(r) ==
  /\ req[r].pc = "generate"
  /\ \E response \in RequestResponses :
       req' = [req EXCEPT ![r] = [@ EXCEPT !.pc = "validate", !.raw_sql = response,
                                            !.clean_sql = parse_sql_from_response(response),
                                            !.heard.response = response]]
  /\ UNCHANGED <<pipeline_vars, executor_vars, function_vars>>

\* Step 5 of request r
RValidate(r) ==
  /\ req[r].pc = "validate"
  /\ LET clean == sanitize_sql(req[r].clean_sql)
     IN \E table_order \in TableOrders(clean) :
          LET v == parse_and_validate(clean, req[r].allowed_tables, table_order)
          IN req' = [req EXCEPT ![r] =
                       IF ~v.is_valid
                       THEN [@ EXCEPT !.pc = "done", !.clean_sql = clean,
                                      !.validation = Some(v),
                                      !.result = Some(PipelineResult(req[r].question, Some(clean),
                                                        Some(v), None,
                                                        ValidationAnswer(v.errors), FALSE))]
                       ELSE [@ EXCEPT !.pc = "connect", !.clean_sql = clean,
                                      !.validation = Some(v)]]
  /\ UNCHANGED <<pipeline_vars, executor_vars, function_vars>>

RConnectCached(r) ==
  /\ req[r].pc = "connect"
  /\ LET open == {i \in 1..Len(connections) : connections[i].open}
         i == IF open = {} THEN Len(connections) + 1 ELSE CHOOSE k \in open : TRUE
     IN /\ connections' = IF open = {} THEN Append(connections, Connection) ELSE connections
        /\ req' = [req EXCEPT ![r] = [@ EXCEPT !.pc = "run", !.conn = Some(i),
                                                !.conns = Append(@, i)]]
  /\ ExecutorLocalsUnchanged
  /\ UNCHANGED <<pipeline_vars, function_vars>>

\* execute_query of request r: conn = self._get_connection()
RConnect(r) ==
  /\ req[r].pc = "connect"
  /\ connections' = Append(connections, Connection)
  /\ req' = [req EXCEPT ![r] = [@ EXCEPT !.pc = "run", !.conn = Some(Len(connections) + 1),
                                          !.conns = Append(@, Len(connections) + 1)]]
  /\ ExecutorLocalsUnchanged
  /\ UNCHANGED <<pipeline_vars, function_vars>>

\* execute_query of request r, from set_session to conn.close(); a failed
\* first execution leads to the correction, any other outcome to the answer
RRun(r) ==
  /\ req[r].pc = "run"
  /\ \E qr \in RequestOutcomes :
       req' = [req EXCEPT ![r] =
                 [@ EXCEPT !.pc = IF qr.success \/ Len(req[r].conns) = 2 THEN "answer" ELSE "retry",
                           !.query_result = Some(qr), !.conn = None,
                           !.heard.outcomes = Append(@, qr)]]
  /\ connections' = [connections EXCEPT ![req[r].conn[1]] =
                       [open |-> FALSE, readonly |-> TRUE, statement_timeout |-> TRUE,
                        executed |-> TRUE]]
  /\ ExecutorLocalsUnchanged
  /\ UNCHANGED <<pipeline_vars, function_vars>>

\* the correction of request r: retry_with_feedback, extraction, sanitizing
\* and the second validation
RRetry(r) ==
  /\ req[r].pc = "retry"
  /\ \E reply \in RequestResponses :
       LET corrected == sanitize_sql(parse_sql_from_response(reply))
       IN \E table_order \in TableOrders(corrected) :
            LET v == parse_and_validate(corrected, req[r].allowed_tables, table_order)
            IN req' = [req EXCEPT ![r] =
                         IF v.is_valid
                         THEN [@ EXCEPT !.pc = "connect", !.raw_sql = reply,
                                        !.clean_sql = corrected, !.validation = Some(v),
                                        !.heard.reply = reply]
                         ELSE [@ EXCEPT !.pc = "answer", !.raw_sql = reply,
                                        !.heard.reply = reply]]
  /\ UNCHANGED <<pipeline_vars, executor_vars, function_vars>>

\* the answer generate_answer gives for a QueryResult when the chat call works
AnswerFor(qr) ==
  IF AnswerNeedsLLM(qr) THEN AnswerFromLLM(qr, "summary") ELSE AnswerWithoutLLM(qr)

\* Step 7 of request r and the result
RAnswer(r) ==
  /\ req[r].pc = "answer"
  /\ req' = [req EXCEPT ![r] =
               [@ EXCEPT !.pc = "done",
                         !.result = Some(PipelineResult(req[r].question, Some(req[r].clean_sql),
                                           req[r].validation,
                                           Some(_serialize_query_result(req[r].query_result[1])),
                                           AnswerFor(req[r].query_result[1]), FALSE))]]
  /\ UNCHANGED <<pipeline_vars, executor_vars, function_vars>>

InitRequests ==
  /\ NoRequest /\ collection = ExampleCollection
  /\ ExecutorIdle
  /\ NoFunction
  /\ req \in [Requests -> {Locals(q) : q \in RequestQuestions}]

NextRequests ==
  \E r \in Requests :
    \/ RStart(r)
    \/ RContext(r)
    \/ RGenerate(r)
    \/ RValidate(r)
    \/ RConnect(r)
    \/ RRun(r)
    \/ RRetry(r)
    \/ RAnswer(r)

SpecRequests == InitRequests /\ [][NextRequests]_vars

(***************************************************************************)
(* SQLValidator.parse_and_validate applied on its own                      *)
(***************************************************************************)
\* select lists: plain columns, an aggregate, EXTRACT with its FROM, the
\* REPLACE string function
SelectLists ==
  {<<"*">>,
   <<"o", ".", "total">>,
   <<"COUNT", "(", "*", ")">>,
   <<"EXTRACT", "(", "YEAR", " ", "FROM", " ", "o", ".", "order_date", ")">>,
   <<"REPLACE", "(", "c", ".", "name", ",", " ", "'", "a", "'", ",", " ", "'", "b", "'", ")">>}

\* what follows the select list
TableClauses ==
  {<<"FROM", " ", "orders", " ", "o">>,
   <<"FROM", " ", "customers", " ", "c">>,
   <<"FROM", " ", "Orders", " ", "o">>,
   <<"FROM", " ", "orders", " ", "o", " ", "JOIN", " ", "customers", " ", "c", " ",
     "ON", " ", "o", ".", "customer_id", " ", "=", " ", "c", ".", "id">>,
   <<"FROM", " ", "orders", " ", "o", ";", " ", "DROP", " ", "TABLE", " ", "orders">>}

\* the statements handed to parse_and_validate
ValidateSqls ==
  {<<"SELECT", " ">> \o l \o <<" ">> \o t : l \in SelectLists, t \in TableClauses}
    \cup {<<>>, <<"DELETE", " ", "FROM", " ", "orders">>}

\* the lists of allowed tables handed to parse_and_validate
AllowedLists == {{}, {"orders"}, {"customers"}, {"orders", "customers"}, {"Orders"}}

ApplyValidate ==
  /\ fn = "parse_and_validate"
  /\ returned = <<>>
  /\ \E table_order \in TableOrders(arg.sql) :
       returned' = <<parse_and_validate(arg.sql, arg.allowed_tables, table_order)>>
  /\ UNCHANGED <<fn, arg, indexed, pipeline_vars, executor_vars, request_vars>>

InitValidate ==
  /\ NoRequest /\ collection = ExampleCollection
  /\ ExecutorIdle
  /\ fn = "parse_and_validate"
  /\ arg \in [sql : ValidateSqls, allowed_tables : AllowedLists]
  /\ returned = <<>>
  /\ indexed = <<>>
  /\ NoConcurrentRequests

NextValidate == ApplyValidate

SpecValidate == InitValidate /\ [][NextValidate]_vars

\* C11: the executor never raises.  No exception leaves execute_query; a call
\* in which a statement (connect, set_session, setting the timeout, execute,
\* reading the description, fetchmany) raised e returns a QueryResult with
\* success = false, error_message = str(e) and execution_time_ms counted from
\* the entry of the call; every finished call has returned a QueryResult.
C11_ExecutorNeverRaises ==
  /\ ex_escaped = None
  /\ (ex_pc = "idle" /\ ex_calls > 0) => ex_returned # None
  /\ (ex_exception # None /\ ex_pc \in {"finally", "idle"}) =>
       /\ ex_result # None
       /\ ~ex_result[1].success
       /\ ex_result[1].error_message = Some(ex_exception[1].text)
       /\ ex_result[1].execution_time_ms = (clock - ex_called_at) * 1000
       /\ ex_pc = "idle" => ex_returned = ex_result

\* a call whose fetchmany raised after time had passed has returned
C11_Witness ==
  /\ ex_pc = "idle"
  /\ ex_exception # None
  /\ ex_exception[1].raised_by = "fetch"
  /\ ex_returned # None
  /\ ex_returned[1].execution_time_ms > 0

\* C12: guaranteed release.  A connection is open only while the call that
\* opened it is running; whenever execute_query is not running (after any
\* sequence of calls, whatever their outcomes) no connection is open.
C12_ConnectionsReleased ==
  \A i \in 1..Len(connections) :
    connections[i].open => (ex_pc # "idle" /\ ex_conn = Some(i))

\* two calls have opened a connection each and have returned, the last one
\* after a statement raised on its open connection
C12_Witness ==
  /\ ex_pc = "idle"
  /\ Len(connections) >= 2
  /\ ex_exception # None
  /\ ex_exception[1].raised_by \in {"set_session", "set_timeout", "execute", "fetch"}
  /\ ex_returned # None

\* C13: QueryOutcome invariant.  Every QueryResult execute_query builds has
\* empty rows and empty columns when success is false, has row_count equal
\* to MAX_ROWS when truncated is true, and has row_count equal to the number
\* of its rows and at most MAX_ROWS.
C13_QueryOutcomeInvariant ==
  \A r \in Range(ex_result) \cup Range(ex_returned) :
    /\ ~r.success => (r.rows = <<>> /\ r.columns = <<>>)
    /\ r.truncated => r.row_count = MAX_ROWS
    /\ r.row_count = Len(r.rows)
    /\ r.row_count <= MAX_ROWS

\* a call returned the capped rows of a statement that produced more
C13_Witness ==
  /\ ex_pc = "idle"
  /\ ex_returned # None
  /\ ex_returned[1].success
  /\ ex_returned[1].truncated
  /\ db_rows > MAX_ROWS

\* C14: truncation threshold.  In a successful QueryResult truncated is true
\* exactly when MAX_ROWS rows were fetched: a statement producing MAX_ROWS
\* rows or more gives truncated = true and row_count = MAX_ROWS, one
\* producing MAX_ROWS - 1 rows or fewer gives truncated = false.
C14_TruncationThreshold ==
  \A r \in Range(ex_result) :
    r.success =>
      /\ r.truncated <=> Len(ex_rows) = MAX_ROWS
      /\ db_rows >= MAX_ROWS => (r.truncated /\ r.row_count = MAX_ROWS)
      /\ db_rows <= MAX_ROWS - 1 => (~r.truncated /\ r.row_count = db_rows)

\* a call returned the rows of a statement that produced exactly MAX_ROWS
C14_Witness ==
  /\ ex_pc = "idle"
  /\ ex_returned # None
  /\ ex_returned[1].success
  /\ db_rows = MAX_ROWS
  /\ ex_returned[1].row_count = MAX_ROWS

(***************************************************************************)
(* Properties                                                              *)
(***************************************************************************)
SqlKeywords == DMLWords \cup DDLWords \cup PlainKeywords

\* first position at or after k that holds no whitespace (Len(s) + 1 when none)
SkipWs(s, k) ==
  LET rest == {j \in k..Len(s) : s[j] \notin WS}
  IN IF rest = {} THEN Len(s) + 1 ELSE CHOOSE j \in rest : \A m \in rest : j <= m

\* The tables named by the comma-separated list of table references that
\* starts at position k0: each reference is a plain, a quoted or a
\* schema-qualified name with an optional alias.  Unquoted names fold to
\* lower case.
RECURSIVE RefList(_, _)
RefList(s, k0) ==
  LET k == SkipWs(s, k0)
  IN IF k > Len(s) THEN {}
     ELSE LET quoted    == s[k] = "\"" /\ k + 2 <= Len(s) /\ IsWord(s[k+1]) /\ s[k+2] = "\""
              qualified == IsWord(s[k]) /\ k + 2 <= Len(s) /\ s[k+1] = "." /\ IsWord(s[k+2])
              name == IF quoted THEN s[k+1]
                      ELSE IF qualified THEN Lower(Upper(s[k+2]))
                      ELSE Lower(Upper(s[k]))
              e == IF quoted \/ qualified THEN k + 2 ELSE k
              a == SkipWs(s, e + 1)
              c == IF a <= Len(s) /\ IsWord(s[a]) /\ Upper(s[a]) \notin SqlKeywords
                   THEN SkipWs(s, a + 1) ELSE a
          IN IF ~(quoted \/ IsWord(s[k])) THEN {}
             ELSE {name} \cup (IF c <= Len(s) /\ s[c] = "," THEN RefList(s, c + 1) ELSE {})

\* position j lies between the parentheses of EXTRACT(field FROM source),
\* where FROM introduces no table
InExtract(s, j) ==
  \E k \in 2..(j - 1) :
    /\ s[k] = "(" /\ IsWord(s[k-1]) /\ Upper(s[k-1]) = "EXTRACT"
    /\ \A m \in (k + 1)..(j - 1) : s[m] # ")"

\* The tables a text reads from: every table reference behind a FROM or
\* JOIN keyword that introduces tables, in every statement of the text
ReferencedTables(sql) ==
  LET cls == LexClass(sql)
  IN UNION {RefList(sql, i + 1) :
              i \in {j \in 1..Len(sql) :
                       /\ IsWord(sql[j]) /\ Upper(sql[j]) \in {"FROM", "JOIN"}
                       /\ TokenType(sql, cls, j) = "Keyword"
                       /\ ~InExtract(sql, j)}}

\* k occurs in the text as a keyword token
ContainsKeyword(sql, k) ==
  \E i \in 1..Len(sql) :
    /\ IsWord(sql[i]) /\ Upper(sql[i]) = k
    /\ TokenType(sql, LexClass(sql), i) \in {"Keyword", "DML", "DDL"}

\* some message of the list names the word
Names(errors, word) == \E k \in 1..Len(errors) : word \in Range(errors[k])

\* validation is the verdict of parse_and_validate on (clean_sql, allowed_tables)
Validated == validation # None

\* C1: whitelist enforcement.  Whenever parse_and_validate has judged a
\* statement that reads a table outside allowed_tables (first FROM target,
\* JOIN target, later entry of a comma list, quoted or schema-qualified
\* name), the verdict is invalid and an error names that table.
C1_WhitelistEnforced ==
  Validated =>
    \A t \in ReferencedTables(clean_sql) \ allowed_tables :
      /\ ~validation[1].is_valid
      /\ Names(validation[1].errors, t)

\* C2: forbidden-keyword rejection.  Whenever parse_and_validate has judged
\* a text that holds a forbidden keyword as a keyword token anywhere (also
\* behind a leading SELECT or in a second statement), the verdict is
\* invalid and an error names the keyword.
C2_ForbiddenRejected ==
  Validated =>
    \A k \in forbidden_keywords :
      ContainsKeyword(clean_sql, k) =>
        /\ ~validation[1].is_valid
        /\ Names(validation[1].errors, k)

\* C3: no statement passed to execute_query holds a statement terminator,
\* on the initial path and on the correction path.
C3_StackedNeverExecuted ==
  \A i \in 1..Len(executed) : ~check_for_injection(executed[i])

C5_RetryBound ==
  /\ calls["execution"] <= 2
  /\ calls["correction"] <= 1
  /\ (/\ validation_retry # None
      /\ validation_retry[1].is_valid
      /\ pc \in {"generate_answer", "done"}
      /\ ~query_result[1].success)
       => /\ calls["execution"] = 2
          /\ calls["correction"] = 1
          /\ Len(executed) = 2
          /\ (pc = "done" => result # None)

\* C5 witness: both executions failed and the request has ended
C5_Witness ==
  /\ pc = "done"
  /\ validation_retry # None
  /\ validation_retry[1].is_valid
  /\ ~query_result[1].success
  /\ calls["execution"] = 2

\* C6: external-call cap.  Along every path of one request: ambiguity
\* check <= 1, retrieval <= 1, generation <= 1, correction <= 1,
\* execution <= 2, summarization <= 1.
C6_CallCap ==
  /\ calls["ambiguity"] <= 1
  /\ calls["retrieval"] <= 1
  /\ calls["generation"] <= 1
  /\ calls["correction"] <= 1
  /\ calls["execution"] <= 2
  /\ calls["summarization"] <= 1

\* C6 witness: a request that used every call the cap allows
C6_Witness ==
  /\ pc = "done"
  /\ calls["ambiguity"] = 1
  /\ calls["retrieval"] = 1
  /\ calls["generation"] = 1
  /\ calls["correction"] = 1
  /\ calls["execution"] = 2
  /\ calls["summarization"] = 1

\* C7: short-circuit on invalid validation.  When the first validation is
\* invalid the request has ended with no execution, no correction and no
\* summary call; its result has no query result, carries the validation
\* result, and its answer holds every validation error.
C7_InvalidShortCircuit ==
  (validated # <<>> /\ ~validated[1].is_valid) =>
    /\ pc = "done"
    /\ calls["execution"] = 0
    /\ calls["correction"] = 0
    /\ calls["summarization"] = 0
    /\ executed = <<>>
    /\ result # None
    /\ result[1].query_result = None
    /\ result[1].validation_result = validation
    /\ ~validation[1].is_valid
    /\ \A k \in 1..Len(validation[1].errors) :
         validation[1].errors[k] \in Range(result[1].answer)

\* C7 witness: a rejected statement with more than one validation error
C7_Witness ==
  /\ pc = "done"
  /\ validated # <<>>
  /\ ~validated[1].is_valid
  /\ Len(validation[1].errors) >= 2

\* C8: short-circuit on ambiguity.  Once the ambiguity check of an
\* ambiguous question has run, the request has ended with no other call
\* made and a result with clarification_needed and no SQL, validation or
\* query result; every other result has clarification_needed false.
C8_AmbiguityShortCircuit ==
  /\ (pc # "handle_ambiguity" /\ handle_ambiguity(question) # None) =>
       /\ pc = "done"
       /\ \A c \in Collaborators \ {"ambiguity"} : calls[c] = 0
       /\ result # None
       /\ result[1].clarification_needed
       /\ result[1].answer = handle_ambiguity(question)[1]
       /\ result[1].generated_sql = None
       /\ result[1].validation_result = None
       /\ result[1].query_result = None
  /\ (result # None /\ handle_ambiguity(question) = None) =>
       ~result[1].clarification_needed

\* C8 witness: a clarification was returned
C8_Witness ==
  /\ pc = "done"
  /\ result # None
  /\ result[1].clarification_needed

\* C9: no component failure leaves process_question as an exception; every
\* request that has stopped has a result.
C9_AlwaysAnOutcome ==
  /\ raised = None
  /\ pc # "raised"

\* C10: a failed generation call is fatal and a failed correction call is
\* terminal.  When the chat call of generate_sql raised, nothing is
\* executed; when the chat call of retry_with_feedback raised, no second
\* execution happens.
C10_FailedCallsExecuteNothing ==
  /\ "generate" \in llm_failed => calls["execution"] = 0
  /\ "retry" \in llm_failed => calls["execution"] <= 1

C16_SanitizeIdempotent ==
  (fn = "sanitize_sql" /\ Len(returned) >= 2) => returned[2] = returned[1]

\* the argument of the k-th application of the function
Argument(k) == IF k = 1 THEN arg ELSE returned[k - 1]

\* the tables FK markers of the documents point to
FkTargets(docs) == UNION {Range(docs[k].fks) : k \in 1..Len(docs)}

\* C17: expansion soundness and one-hop bound.  Every application of
\* expand_with_related_tables keeps every document of its input; every
\* document it adds is the stored document of a table that an FK marker of
\* an input document points to; a table that only an added document points
\* to is not added by that application.
C17_ExpansionSound ==
  fn = "expand_with_related_tables" =>
    \A k \in 1..Len(returned) :
      LET input  == Argument(k)
          output == returned[k]
          added  == Range(output) \ Range(input)
      IN /\ Range(input) \subseteq Range(output)
         /\ \A d \in added :
              /\ d.table_name \in FkTargets(input)
              /\ d.table_name \in DOMAIN collection
              /\ d = collection[d.table_name]
         /\ \A d \in added : \A t \in Range(d.fks) :
              t \notin FkTargets(input) \cup TableNames(input)
                => t \notin TableNames(output)

\* an application added a document whose own FK target has a stored
\* document and stayed out of the result
C17_Witness ==
  /\ fn = "expand_with_related_tables"
  /\ returned # <<>>
  /\ \E d \in Range(returned[1]) \ Range(arg) : \E t \in Range(d.fks) :
       t \in DOMAIN collection /\ t \notin TableNames(returned[1])

\* C18 as stated: expansion idempotence.  Applying expand_with_related_tables
\* to its own result gives the same set of documents as applying it once,
\* for every retrieved context and every content of the collection.
C18_ExpansionIdempotent ==
  (fn = "expand_with_related_tables" /\ Len(returned) >= 2)
    => Range(returned[2]) = Range(returned[1])

\* every FK marker of a document the first application added points to a
\* table that is in the first result or has no stored document
AddedAreClosed ==
  \A d \in Range(returned[1]) \ Range(arg) : \A t \in Range(d.fks) :
    t \in TableNames(returned[1]) \/ t \notin DOMAIN collection

\* C18 amended: applying expand_with_related_tables to its own result gives
\* the same set of documents as applying it once whenever every FK marker of
\* the documents added by the first application points to a table that is
\* already in the first result or has no document in the collection.
C18_IdempotentWhenClosed ==
  (fn = "expand_with_related_tables" /\ Len(returned) >= 2 /\ AddedAreClosed)
    => Range(returned[2]) = Range(returned[1])

\* the first application added documents, all of them closed, and the
\* function was applied to its result
C18_Witness ==
  /\ fn = "expand_with_related_tables"
  /\ Len(returned) >= 2
  /\ Range(returned[1]) # Range(arg)
  /\ AddedAreClosed

\* C19: expansion result.  The result of expand_with_related_tables is its
\* input, in the input's order, followed by the stored documents of the
\* tables that an FK marker of an input document points to, that are not
\* tables of the input and that have a document in the collection, each
\* once; targets without a stored document are left out.
C19_ExpansionResult ==
  fn = "expand_with_related_tables" =>
    \A k \in 1..Len(returned) :
      LET input    == Argument(k)
          output   == returned[k]
          expected == {collection[t] :
                         t \in (FkTargets(input) \ TableNames(input)) \cap DOMAIN collection}
      IN /\ Len(output) = Len(input) + Cardinality(expected)
         /\ SubSeq(output, 1, Len(input)) = input
         /\ {output[j] : j \in Len(input) + 1 .. Len(output)} = expected

\* retrieved {orders} became {orders, customers}
C19_Witness ==
  /\ fn = "expand_with_related_tables"
  /\ arg = <<ExampleCollection["orders"]>>
  /\ returned # <<>>
  /\ returned[1] = <<ExampleCollection["orders"], ExampleCollection["customers"]>>

\* the text holds more than one statement: a statement terminator that is
\* code is followed by more than whitespace and terminators
SeveralStatements(sql) ==
  LET cls == LexClass(sql)
  IN \E i \in 1..Len(sql) :
       /\ sql[i] = ";" /\ cls[i] = "code"
       /\ \E j \in i + 1 .. Len(sql) : sql[j] \notin WS \cup {";"}

\* C20: extractor single-statement guarantee.  What parse_sql_from_response
\* returns is one candidate statement, never two or more statements joined
\* by a terminator, whatever the response holds behind its first SELECT.
C20_SingleStatement ==
  (fn = "parse_sql_from_response" /\ returned # <<>>)
    => ~SeveralStatements(returned[1])

\* the response holds no SELECT keyword behind its code fences
NoSelect(response) == SelectMatch(Strip(JoinWords(StripFencesFrom(response, 1)))) = 0

\* the first response of the model is in raw_sql: generate_sql has returned
\* and no correction was asked for
FirstResponseKnown == calls["generation"] = 1 /\ calls["correction"] = 0

\* C21: extraction ambiguity becomes a validation failure.  When the first
\* response of the model holds no SELECT keyword, parse_sql_from_response
\* returns its fence-stripped, trimmed text unchanged, the validator rejects
\* it, and the request ends in the invalid-validation result with no
\* query_result and nothing executed.
C21_NoSelectIsRejected ==
  (FirstResponseKnown /\ NoSelect(raw_sql)) =>
    /\ pc = "validate" => clean_sql = Strip(JoinWords(StripFencesFrom(raw_sql, 1)))
    /\ pc # "validate" =>
         /\ Validated /\ ~validation[1].is_valid
         /\ pc = "done"
         /\ result # None
         /\ result[1].query_result = None
         /\ result[1].validation_result = validation
         /\ executed = <<>>

\* C22: upsert semantics.  After any sequence of index_schema calls the
\* collection holds one document for each table name indexed so far and no
\* other document; the document of a name is the one index_schema writes
\* for the schema most recently indexed under that name, and no second
\* document describes the same table.
C22_UpsertSemantics ==
  fn = "index_schema" =>
    /\ DOMAIN collection = DOMAIN indexed
    /\ \A n \in DOMAIN indexed :
         /\ collection[n] = Render(indexed[n].schema)
         /\ Cardinality({id \in DOMAIN collection : collection[id].table_name = n}) = 1

\* orders was indexed twice with different schemas and the collection holds
\* the document of the second
C22_Witness ==
  /\ fn = "index_schema"
  /\ "orders" \in DOMAIN indexed
  /\ indexed["orders"].times >= 2
  /\ collection["orders"].fks = <<"customers", "products">>
  /\ \E k \in 1..Len(arg) : arg[k].table_name = "orders"

\* C23: connections are never shared.  Every execute_query call works on a
\* connection opened for it: no connection is used by two requests, the two
\* executions of one request use two connections, the first of them closed
\* when the second is opened, and the connection a call holds is open and
\* is the last one its request acquired.
C23_ConnectionsNotShared ==
  /\ \A r1, r2 \in DOMAIN req :
       r1 # r2 => Range(req[r1].conns) \cap Range(req[r2].conns) = {}
  /\ \A r \in DOMAIN req :
       /\ \A i, j \in 1..Len(req[r].conns) :
            i < j => (/\ req[r].conns[i] # req[r].conns[j]
                      /\ ~connections[req[r].conns[i]].open)
       /\ req[r].conn # None =>
            /\ req[r].conn[1] = req[r].conns[Len(req[r].conns)]
            /\ connections[req[r].conn[1]].open

\* one request holds the connection of its second execution while another
\* request holds a connection too
C23_Witness ==
  \E r1, r2 \in DOMAIN req :
    /\ r1 # r2
    /\ Len(req[r1].conns) = 2
    /\ req[r1].conn # None
    /\ req[r2].conn # None

\* process_question as a function of the question and of the answers the
\* request received from outside, run with nothing beside it
RunAlone(q, heard) ==
  LET ambiguity == handle_ambiguity(q)
      full      == expand_with_related_tables(heard.context,
                     CHOOSE extras \in ExtrasOrders(ExampleCollection, heard.context) : TRUE)
      allowed   == AllowedTables(full)
      clean     == sanitize_sql(parse_sql_from_response(heard.response))
      v         == parse_and_validate(clean, allowed,
                                      CHOOSE o \in TableOrders(clean) : TRUE)
      corrected == sanitize_sql(parse_sql_from_response(heard.reply))
      v2        == parse_and_validate(corrected, allowed,
                                      CHOOSE o \in TableOrders(corrected) : TRUE)
      Final(sql, verdict, qr) ==
        PipelineResult(q, Some(sql), Some(verdict), Some(_serialize_query_result(qr)),
                       AnswerFor(qr), FALSE)
  IN IF ambiguity # None
     THEN PipelineResult(q, None, None, None, ambiguity[1], TRUE)
     ELSE IF ~v.is_valid
     THEN PipelineResult(q, Some(clean), Some(v), None, ValidationAnswer(v.errors), FALSE)
     ELSE IF heard.outcomes[1].success
     THEN Final(clean, v, heard.outcomes[1])
     ELSE IF v2.is_valid
     THEN Final(corrected, v2, heard.outcomes[2])
     ELSE Final(clean, v, heard.outcomes[1])

\* C24: request isolation.  Whatever the interleaving of the requests that
\* run on the one pipeline object, the allowed_tables of a request are those
\* of the context that request retrieved, and the result of a finished
\* request is the result it has when it runs alone and receives the same
\* answers from outside.
C24_RequestIsolation ==
  \A r \in DOMAIN req :
    /\ req[r].pc \notin {"start", "retrieve"} =>
         req[r].allowed_tables = TableNames(req[r].schemas)
    /\ req[r].pc = "done" =>
         req[r].result = Some(RunAlone(req[r].question, req[r].heard))

\* two requests that retrieved different contexts have both finished with a
\* query result
C24_Witness ==
  \E r1, r2 \in DOMAIN req :
    /\ r1 # r2
    /\ req[r1].pc = "done" /\ req[r2].pc = "done"
    /\ req[r1].heard.context # req[r2].heard.context
    /\ req[r1].result[1].query_result # None
    /\ req[r2].result[1].query_result # None

\* C25: every execution failure is eligible for exactly one correction.  A
\* first execute_query that returns success = false, whatever its error, is
\* followed by one retry_with_feedback call whose arguments are the statement
\* that failed, its error message, the question and the expanded context; a
\* first execution that succeeds is followed by no correction call, and no
\* other step of the request makes one.
C25_OneCorrectionPerFailure ==
  [][/\ pc = "execute" =>
          /\ corrections' = <<>>
          /\ (pc' = "retry") = ~query_result'[1].success
     /\ pc = "retry" =>
          /\ ~query_result[1].success
          /\ corrections' = <<[sql            |-> executed[1],
                               error          |-> query_result[1].error_message,
                               question       |-> question,
                               schema_context |-> schemas]>>
          /\ AllowedTables(schemas) = allowed_tables
          /\ pc' # "retry"
     /\ pc \notin {"execute", "retry"} =>
          /\ corrections' = corrections
          /\ pc' # "retry"]_vars

\* a request whose first execution timed out has asked for its correction
\* and is finished
C25_Witness ==
  /\ pc = "done"
  /\ Len(executed) = 2
  /\ Len(corrections) = 1
  /\ corrections[1].error = Some("canceling statement due to statement timeout")
  /\ corrections[1].sql = executed[1]
  /\ corrections[1].schema_context = schemas

\* the answer generate_answer gives for a database error
DatabaseErrorAnswer(error_message) ==
  << <<"I couldn't get the answer because of a database error: ">>, error_message >>

\* C26: correction failure is terminal.  A corrected statement that fails
\* validation is never executed, and after a corrected statement that
\* validates but fails on execution nothing further is attempted; in both
\* cases the returned outcome has query_result.success = false and its answer
\* carries a database error message: the original one when the correction
\* failed validation, the final one when the corrected execution failed.
C26_CorrectionFailureTerminal ==
  (Len(corrections) >= 1 /\ validation_retry # None) =>
    /\ calls["correction"] = 1
    /\ ~validation_retry[1].is_valid =>
         /\ pc \in {"generate_answer", "done"}
         /\ executed = <<corrections[1].sql>>
         /\ query_result[1].error_message = corrections[1].error
         /\ pc = "done" =>
              /\ ~result[1].query_result[1].success
              /\ result[1].answer = DatabaseErrorAnswer(corrections[1].error)
    /\ (validation_retry[1].is_valid /\ pc \in {"generate_answer", "done"}
          /\ ~query_result[1].success) =>
         /\ executed = <<corrections[1].sql, corrected_sql[1]>>
         /\ calls["execution"] = 2
         /\ pc = "done" =>
              /\ ~result[1].query_result[1].success
              /\ result[1].answer = DatabaseErrorAnswer(query_result[1].error_message)

\* a finished request whose corrected statement validated and failed with
\* another error than the first execution
C26_Witness ==
  /\ pc = "done"
  /\ validation_retry # None /\ validation_retry[1].is_valid
  /\ Len(executed) = 2
  /\ ~result[1].query_result[1].success
  /\ result[1].query_result[1].error_message # corrections[1].error

\* C27: executor step order.  Within execute_query the connection is opened,
\* the session is set read-only, the statement timeout is set, the statement
\* is executed, at most MAX_ROWS rows are fetched and the connection is
\* closed, in this order: a statement is only ever executed on a session that
\* is read-only and has its timeout set, rows are only fetched after the
\* statement was executed, and a call that returned left its connection
\* closed.
C27_ExecutorStepOrder ==
  /\ \A i \in DOMAIN connections :
       /\ connections[i].statement_timeout => connections[i].readonly
       /\ connections[i].executed =>
            connections[i].readonly /\ connections[i].statement_timeout
  /\ ex_pc \in {"set_session", "set_timeout", "execute", "description", "fetch"} =>
       /\ ex_conn # None
       /\ connections[ex_conn[1]].open
       /\ connections[ex_conn[1]].readonly = (ex_pc # "set_session")
       /\ connections[ex_conn[1]].statement_timeout =
            (ex_pc \in {"execute", "description", "fetch"})
       /\ connections[ex_conn[1]].executed = (ex_pc \in {"description", "fetch"})
       /\ ex_rows = <<>>
  /\ ex_pc = "connect" => ex_conn = None /\ ex_rows = <<>>
  /\ Len(ex_rows) <= MAX_ROWS
  /\ ex_rows # <<>> =>
       /\ ex_conn # None
       /\ connections[ex_conn[1]].executed
  /\ ex_pc = "idle" => \A i \in DOMAIN connections : ~connections[i].open

\* a call has returned MAX_ROWS rows of a larger result set, on a session
\* that was read-only with its timeout set, and the connection is closed
C27_Witness ==
  /\ ex_pc = "idle"
  /\ ex_conn # None
  /\ Len(ex_rows) = MAX_ROWS
  /\ db_rows > MAX_ROWS
  /\ connections[ex_conn[1]].readonly
  /\ connections[ex_conn[1]].statement_timeout
  /\ connections[ex_conn[1]].executed
  /\ ~connections[ex_conn[1]].open

\* the place of a stage in process_question
StageRank(stage) ==
  CASE stage = "handle_ambiguity" -> 1
    [] stage = "retrieve"         -> 2
    [] stage = "expand"           -> 3
    [] stage = "generate"         -> 4
    [] stage = "validate"         -> 5
    [] stage = "execute"          -> 6
    [] stage = "retry"            -> 7
    [] stage = "execute_retry"    -> 8
    [] stage = "generate_answer"  -> 9
    [] OTHER                      -> 10

\* C28: every request terminates.  When every external call eventually
\* returns or fails, process_question eventually ends, and every step moves
\* the request to a later stage: no stage is entered again, the stages of the
\* correction cycle included.
C28_RequestTerminates ==
  /\ <>[]Finished
  /\ [][StageRank(pc') > StageRank(pc)]_vars

\* a request has gone through the correction cycle and the summary and has
\* returned
C28_Witness ==
  /\ pc = "done"
  /\ calls["correction"] = 1
  /\ Len(executed) = 2
  /\ calls["summarization"] = 1
  /\ result # None

\* C29: outcome consistency.  In every PipelineResult with a query_result,
\* generated_sql is the statement whose execution produced that query_result
\* and validation_result is the validation of that statement, with
\* is_valid = true; after a correction that validates, the three are those of
\* the corrected statement, and after a correction that fails validation, those
\* of the original statement.
C29_OutcomeConsistency ==
  (pc = "done" /\ result[1].query_result # None) =>
    LET sql == result[1].generated_sql[1]
        v   == result[1].validation_result[1]
    IN /\ result[1].generated_sql # None /\ result[1].validation_result # None
       /\ sql = executed[Len(executed)]
       /\ result[1].query_result = Some(_serialize_query_result(query_result[1]))
       /\ v.is_valid
       /\ v \in {parse_and_validate(sql, allowed_tables, o) : o \in TableOrders(sql)}
       /\ \E k \in DOMAIN validated :
            /\ validated[k].sql = sql /\ validated[k].is_valid
            /\ validated[k].allowed = allowed_tables
       /\ (validation_retry # None /\ validation_retry[1].is_valid) =>
            /\ sql = corrected_sql[1]
            /\ executed = <<corrections[1].sql, sql>>
            /\ result[1].validation_result = validation_retry
       /\ (validation_retry # None /\ ~validation_retry[1].is_valid) =>
            /\ sql = corrections[1].sql
            /\ executed = <<sql>>
            /\ validated[1].sql = sql
            /\ result[1].query_result[1].error_message = corrections[1].error
       /\ validation_retry = None => executed = <<sql>> /\ validated[1].sql = sql

\* a finished request reports a corrected statement that differs from the
\* one that failed, with the rows of its execution
C29_Witness ==
  /\ pc = "done"
  /\ validation_retry # None /\ validation_retry[1].is_valid
  /\ result[1].generated_sql = corrected_sql
  /\ corrected_sql[1] # corrections[1].sql
  /\ result[1].query_result # None
  /\ result[1].query_result[1].success
  /\ result[1].query_result[1].row_count > 0

\* the text is one SELECT statement: it starts with SELECT and holds no
\* statement terminator
SingleSelect(sql) ==
  /\ SkipWs(sql, 1) <= Len(sql)
  /\ IsWord(sql[SkipWs(sql, 1)]) /\ Upper(sql[SkipWs(sql, 1)]) = "SELECT"
  /\ ";" \notin Range(sql)

\* C30: validator completeness.  Every single SELECT statement that reads
\* only tables of allowed_tables and holds no forbidden keyword is accepted
\* by parse_and_validate, also when it uses FROM inside EXTRACT(... FROM ...)
\* or calls the REPLACE function.
C30_ValidatorComplete ==
  (/\ fn = "parse_and_validate" /\ returned # <<>>
   /\ SingleSelect(arg.sql)
   /\ ReferencedTables(arg.sql) \subseteq arg.allowed_tables
   /\ \A k \in forbidden_keywords : ~ContainsKeyword(arg.sql, k))
    => returned[1].is_valid

====
